---- MODULE Spec2Model ----
(***************************************************************************)
(* A model of pymonome (src/monome.py): the per-device link Grid with its  *)
(* handshake, inbound-event dispatch and LED command encoder, the consumer *)
(* App, the off-device mirror GridBuffer, and Page / BasePageManager.      *)
(*                                                                         *)
(* Python values are encoded as follows.  An optional value is a sequence  *)
(* of length at most one: <<>> is None and <<v>> is the value v.  A str is *)
(* a tuple of one-character strings.  A list is a sequence, so the Python  *)
(* index i is the TLA+ index i + 1.  An OSC message is the tuple of its    *)
(* path followed by its arguments.                                         *)
(***************************************************************************)
EXTENDS Integers, Sequences, FiniteSets, TLC

VARIABLES
    grid,       \* the Grid object: a record of its attributes
    app_grid,   \* App.grid: None or the Grid the App is attached to
    op,         \* the operation performed by the last step, with its arguments
    sent,       \* the messages the last step handed to send(), in order
    calls,      \* the listener callbacks the last step made, in order
    err,        \* the exception the last step raised, or NoError
    pre,        \* Grid.state as it was before the last step
    mgr,        \* the page manager and its pages
    dev,        \* the device's display, driven by the messages mgr's link sent
    mgrB,       \* a second run of the same manager, for comparing two orders
    devB,       \* the device's display in the second run
    phase       \* how far the comparison of the two runs has got

pagevars == <<mgr, dev, mgrB, devB, phase>>

vars == <<grid, app_grid, op, sent, calls, err, pre, mgr, dev, mgrB, devB, phase>>

---------------------------------------------------------------------------
(* Python values *)

None == <<>>

Some(v) == <<v>>

NoError == "NoError"

\* src/monome.py:29   DISCONNECTED, CONNECTING, READY = range(3)
DISCONNECTED == 0

CONNECTING == 1

READY == 2

MaxLevel == 15

Levels == 0 .. MaxLevel

\* socket name of the local endpoint, stored by connection_made
HOST == "127.0.0.1"

PORT == "sockport"

\* Grid.__init__: prefix.strip('/') of the default '/pymonome'
PREFIX == "pymonome"

---------------------------------------------------------------------------
(* integer helpers for the bit operations of the source *)

RECURSIVE BitOr(_, _)
BitOr(a, b) ==
    IF a = 0 THEN b
    ELSE IF b = 0 THEN a
    ELSE (IF a % 2 = 1 \/ b % 2 = 1 THEN 1 ELSE 0) + 2 * BitOr(a \div 2, b \div 2)

RECURSIVE Shl(_, _)
Shl(a, n) == IF n = 0 THEN a ELSE 2 * Shl(a, n - 1)

\* the downgrade with the wrong shift:  l >> 2 & 1
Shr2And1(l) == (l \div 4) % 2

\* Python:  l >> 3 & 1   (the shift binds tighter than the mask)
Shr3And1(l) == (l \div 8) % 2

RECURSIVE PackBits(_, _)
PackBits(row, i) ==
    IF i = 0 THEN row[1]
    ELSE BitOr(Shl(row[i + 1], i), PackBits(row, i - 1))

\* the packing with the bit order reversed:  row[0] << 7 | ... | row[7]
pack_row_msb(row) == PackBits([i \in 1 .. 8 |-> row[9 - i]], 7)

\* pack_row: row[7] << 7 | row[6] << 6 | ... | row[1] << 1 | row[0]
pack_row(row) == PackBits(row, 7)

\* data[i*8:(i+1)*8] for i in range(len(data) // 8)
Chunks8(data) ==
    [i \in 1 .. (Len(data) \div 8) |-> SubSeq(data, 8 * (i - 1) + 1, 8 * i)]

RECURSIVE Flatten(_)
Flatten(rows) == IF rows = <<>> THEN <<>> ELSE Head(rows) \o Flatten(Tail(rows))

---------------------------------------------------------------------------
(* the result of one call: the Grid afterwards, what was sent, which       *)
(* listener callbacks were made, and the exception raised (if any)         *)

Result(g, s, c, e) == [g |-> g, sent |-> s, calls |-> c, err |-> e]

\* aiosc send(path, *args) on the link's transport
Send(path, args) == <<path>> \o args

Path(suffix) == "/" \o PREFIX \o suffix

---------------------------------------------------------------------------
(* Grid *)

\* Grid.__init__ followed by connection_made (the endpoint factory calls it
\* before handing the protocol out)
Grid_init ==
    [state |-> DISCONNECTED, id |-> None, width |-> None, height |-> None,
     rotation |-> None, varibright |-> TRUE, event_handler |-> None,
     closed |-> FALSE]

Handshake ==
    << Send("/sys/host", <<HOST>>),
       Send("/sys/port", <<PORT>>),
       Send("/sys/prefix", <<PREFIX>>),
       Send("/sys/info/id", <<HOST, PORT>>),
       Send("/sys/info/size", <<HOST, PORT>>) >>

\* a connect() that only refuses to run again once the link is Ready
Grid_connect_retry(g) ==
    IF g.state # READY
    THEN Result([g EXCEPT !.state = CONNECTING], Handshake, <<>>, NoError)
    ELSE Result(g, <<>>, <<>>, NoError)

Grid_connect(g) ==
    IF g.state = DISCONNECTED
    THEN Result([g EXCEPT !.state = CONNECTING], Handshake, <<>>, NoError)
    ELSE Result(g, <<>>, <<>>, NoError)

\* App.on_grid_ready, App.on_grid_key: pass
Listener(g, callback) ==
    IF g.event_handler # None THEN <<callback>> ELSE <<>>

\* Grid.__ready
Grid_ready(g) == Listener(g, <<"on_grid_ready">>)

\* Grid.__sys_connect: pass
Grid_sys_connect(g) == Result(g, <<>>, <<>>, NoError)

\* Grid.__sys_disconnect (the method body; see Grid_handlers for who calls it)
Grid_sys_disconnect(g) ==
    LET g1 == [g EXCEPT !.state = DISCONNECTED, !.closed = TRUE]
    IN  Result(g1, <<>>, Listener(g1, <<"on_grid_ready">>), NoError)

Digits == {"0", "1", "2", "3", "4", "5", "6", "7", "8", "9"}

\* re.match('^m\d+$', s): $ also matches just before one trailing newline
re_match_m_digits(s) ==
    LET n == Len(s)
        body == IF n > 0 /\ s[n] = "\n" THEN SubSeq(s, 1, n - 1) ELSE s
    IN  /\ Len(body) >= 2
        /\ body[1] = "m"
        /\ \A i \in 2 .. Len(body) : body[i] \in Digits

AllKnown(g) == g.id # None /\ g.width # None /\ g.height # None

\* __sys_info with any(...) in place of all(...)
Grid_sys_info_any(g, path, args) ==
    LET g1 == IF path = "/sys/id" THEN [g EXCEPT !.id = Some(args[1])]
              ELSE IF path = "/sys/size"
                   THEN [g EXCEPT !.width = Some(args[1]), !.height = Some(args[2])]
              ELSE IF path = "/sys/rotation" THEN [g EXCEPT !.rotation = Some(args[1])]
              ELSE g
    IN  IF g1.id # None \/ g1.width # None \/ g1.height # None
        THEN LET g2 == [g1 EXCEPT !.state = READY,
                          !.varibright = IF g1.id # None /\ ~re_match_m_digits(g1.id[1])
                                         THEN FALSE ELSE @]
             IN  Result(g2, <<>>, Grid_ready(g2), NoError)
        ELSE Result(g1, <<>>, <<>>, NoError)

\* __sys_info that also falls back to Disconnected while the identity is incomplete
Grid_sys_info_timeout(g, path, args) ==
    LET g1 == IF path = "/sys/id" THEN [g EXCEPT !.id = Some(args[1])]
              ELSE IF path = "/sys/size"
                   THEN [g EXCEPT !.width = Some(args[1]), !.height = Some(args[2])]
              ELSE IF path = "/sys/rotation" THEN [g EXCEPT !.rotation = Some(args[1])]
              ELSE g
    IN  IF AllKnown(g1)
        THEN LET g2 == [g1 EXCEPT !.state = READY,
                          !.varibright = IF ~re_match_m_digits(g1.id[1]) THEN FALSE ELSE @]
             IN  Result(g2, <<>>, Grid_ready(g2), NoError)
        ELSE Result([g1 EXCEPT !.state = DISCONNECTED], <<>>, <<>>, NoError)

\* Grid.__sys_info(addr, path, *args)
Grid_sys_info(g, path, args) ==
    LET g1 == IF path = "/sys/id" THEN [g EXCEPT !.id = Some(args[1])]
              ELSE IF path = "/sys/size"
                   THEN [g EXCEPT !.width = Some(args[1]), !.height = Some(args[2])]
              ELSE IF path = "/sys/rotation" THEN [g EXCEPT !.rotation = Some(args[1])]
              ELSE g
    IN  IF AllKnown(g1)
        THEN LET g2 == [g1 EXCEPT !.state = READY,
                          !.varibright = IF ~re_match_m_digits(g1.id[1]) THEN FALSE ELSE @]
             IN  Result(g2, <<>>, Grid_ready(g2), NoError)
        ELSE Result(g1, <<>>, <<>>, NoError)

\* Grid.__grid_key(addr, path, x, y, s)
Grid_grid_key(g, x, y, s) ==
    Result(g, <<>>, Listener(g, <<"on_grid_key", x, y, s>>), NoError)

\* Grid.__tilt(addr, path, n, x, y, z): with a listener registered it looks up
\* the attribute event_handler_on_tilt on the Grid itself, which does not exist
Grid_tilt(g, n, x, y, z) ==
    IF g.event_handler # None
    THEN Result(g, <<>>, <<>>, "AttributeError")
    ELSE Result(g, <<>>, <<>>, NoError)

SysInfoPaths ==
    {"/sys/id", "/sys/size", "/sys/host", "/sys/port", "/sys/prefix", "/sys/rotation"}

\* The handler table of Grid.__init__, applied to an inbound message
\* msg = <<path, args...>>.  The entries for /sys/connect and /sys/disconnect
\* are  lambda *args: self.__sys_connect  and  lambda *args: self.__sys_disconnect :
\* each evaluates to the bound method and does not call it.
Grid_handlers(g, msg) ==
    LET path == msg[1]
        args == Tail(msg)
    IN  IF path = "/sys/connect" THEN Result(g, <<>>, <<>>, NoError)
        ELSE IF path = "/sys/disconnect" THEN Result(g, <<>>, <<>>, NoError)
        ELSE IF path \in SysInfoPaths THEN Grid_sys_info(g, path, args)
        ELSE IF path = Path("/grid/key") THEN Grid_grid_key(g, args[1], args[2], args[3])
        ELSE IF path = Path("/tilt") THEN Grid_tilt(g, args[1], args[2], args[3], args[4])
        ELSE Result(g, <<>>, <<>>, NoError)

---------------------------------------------------------------------------
(* Grid: the LED command encoder *)

Grid_led_set(g, x, y, s) ==
    Result(g, <<Send(Path("/grid/led/set"), <<x, y, s>>)>>, <<>>, NoError)

Grid_led_all(g, s) ==
    Result(g, <<Send(Path("/grid/led/all"), <<s>>)>>, <<>>, NoError)

\* args = [pack_row(data[i]) for i in range(8)]: needs 8 rows of 8 entries
Grid_led_map(g, x_offset, y_offset, data) ==
    IF Len(data) < 8 \/ \E i \in 1 .. 8 : Len(data[i]) < 8
    THEN Result(g, <<>>, <<>>, "IndexError")
    ELSE Result(g, <<Send(Path("/grid/led/map"),
                          <<x_offset, y_offset>> \o [i \in 1 .. 8 |-> pack_row(data[i])])>>,
                <<>>, NoError)

Grid_led_row(g, x_offset, y, data) ==
    LET chunks == Chunks8(data)
    IN  Result(g, <<Send(Path("/grid/led/row"),
                         <<x_offset, y>> \o [i \in 1 .. Len(chunks) |-> pack_row(chunks[i])])>>,
               <<>>, NoError)

Grid_led_col(g, x, y_offset, data) ==
    LET chunks == Chunks8(data)
    IN  Result(g, <<Send(Path("/grid/led/col"),
                         <<x, y_offset>> \o [i \in 1 .. Len(chunks) |-> pack_row(chunks[i])])>>,
               <<>>, NoError)

Grid_led_intensity(g, i) ==
    Result(g, <<Send(Path("/grid/led/intensity"), <<i>>)>>, <<>>, NoError)

\* [l >> 3 & 1 for l in data]
Downgrade(data) == [i \in 1 .. Len(data) |-> Shr3And1(data[i])]

Grid_led_level_set(g, x, y, l) ==
    IF g.varibright
    THEN Result(g, <<Send(Path("/grid/led/level/set"), <<x, y, l>>)>>, <<>>, NoError)
    ELSE Grid_led_set(g, x, y, Shr3And1(l))

Grid_led_level_all(g, l) ==
    IF g.varibright
    THEN Result(g, <<Send(Path("/grid/led/level/all"), <<l>>)>>, <<>>, NoError)
    ELSE Grid_led_all(g, Shr3And1(l))

Grid_led_level_map(g, x_offset, y_offset, data) ==
    IF g.varibright
    THEN Result(g, <<Send(Path("/grid/led/level/map"),
                          <<x_offset, y_offset>> \o Flatten(data))>>, <<>>, NoError)
    ELSE Grid_led_map(g, x_offset, y_offset,
                      [r \in 1 .. Len(data) |-> Downgrade(data[r])])

Grid_led_level_row(g, x_offset, y, data) ==
    IF g.varibright
    THEN Result(g, <<Send(Path("/grid/led/level/row"), <<x_offset, y>> \o data)>>,
                <<>>, NoError)
    ELSE Grid_led_row(g, x_offset, y, Downgrade(data))

Grid_led_level_col(g, x, y_offset, data) ==
    IF g.varibright
    THEN Result(g, <<Send(Path("/grid/led/level/col"), <<x, y_offset>> \o data)>>,
                <<>>, NoError)
    ELSE Grid_led_col(g, x, y_offset, Downgrade(data))

Grid_tilt_set(g, n, s) ==
    Result(g, <<Send(Path("/tilt/set"), <<n, s>>)>>, <<>>, NoError)

---------------------------------------------------------------------------
(* App *)

TheApp == "app"

TheGrid == "grid"

\* App.attach(grid): self.grid = grid; grid.event_handler = self; grid.connect()
App_attach(g) == Grid_connect([g EXCEPT !.event_handler = Some(TheApp)])

\* App.detach(): self.grid.event_handler = None; self.grid = None
App_detach(g, ag) ==
    IF ag = None
    THEN Result(g, <<>>, <<>>, "AttributeError")
    ELSE Result([g EXCEPT !.event_handler = None], <<>>, <<>>, NoError)

\* App.on_grid_disconnect(): self.detach()
App_on_grid_disconnect(g, ag) == App_detach(g, ag)

---------------------------------------------------------------------------
(* GridBuffer: levels[y][x] is levels[y + 1][x + 1] here *)

GridBuffer_init(width, height) ==
    [width |-> width, height |-> height,
     levels |-> [r \in 1 .. height |-> [c \in 1 .. width |-> 0]]]

\* the result of a GridBuffer method: the buffer afterwards and the exception
BResult(b, e) == [b |-> b, err |-> e]

\* len(data[:k]) for a list of n entries: a negative k counts from the end
PySliceLen(n, k) ==
    IF k >= 0 THEN (IF n < k THEN n ELSE k)
    ELSE (IF n + k > 0 THEN n + k ELSE 0)

GridBuffer_led_level_set(b, x, y, l) ==
    IF x < b.width /\ y < b.height
    THEN BResult([b EXCEPT !.levels[y + 1][x + 1] = l], NoError)
    ELSE BResult(b, NoError)

GridBuffer_led_level_all(b, l) ==
    BResult([b EXCEPT !.levels = [r \in 1 .. b.height |-> [c \in 1 .. b.width |-> l]]],
            NoError)

\* for x, l in enumerate(data[:self.width - x_offset]): self.levels[y][x + x_offset] = l
\* With x_offset > width the slice bound is negative, and the first entry it
\* keeps is stored at column x_offset, which is out of range.
GridBuffer_led_level_row(b, x_offset, y, data) ==
    IF y < b.height
    THEN LET n == PySliceLen(Len(data), b.width - x_offset)
         IN  IF n > 0 /\ x_offset >= b.width
             THEN BResult(b, "IndexError")
             ELSE BResult([b EXCEPT !.levels[y + 1] =
                              [c \in 1 .. b.width |->
                                  IF c - 1 >= x_offset /\ c - 1 - x_offset < n
                                  THEN data[c - x_offset] ELSE @[c]]],
                          NoError)
    ELSE BResult(b, NoError)

GridBuffer_led_level_col(b, x, y_offset, data) ==
    IF x < b.width
    THEN LET n == PySliceLen(Len(data), b.height - y_offset)
         IN  IF n > 0 /\ y_offset >= b.height
             THEN BResult(b, "IndexError")
             ELSE BResult([b EXCEPT !.levels =
                              [r \in 1 .. b.height |->
                                  IF r - 1 >= y_offset /\ r - 1 - y_offset < n
                                  THEN [@[r] EXCEPT ![x + 1] = data[r - y_offset]]
                                  ELSE @[r]]],
                          NoError)
    ELSE BResult(b, NoError)

\* for r, row in enumerate(data): self.led_level_row(x_offset, y_offset + r, row)
RECURSIVE LevelMapFrom(_, _, _, _, _)
LevelMapFrom(b, x_offset, y_offset, data, r) ==
    IF r > Len(data) THEN BResult(b, NoError)
    ELSE LET res == GridBuffer_led_level_row(b, x_offset, y_offset + r - 1, data[r])
         IN  IF res.err # NoError THEN res
             ELSE LevelMapFrom(res.b, x_offset, y_offset, data, r + 1)

GridBuffer_led_level_map(b, x_offset, y_offset, data) ==
    LevelMapFrom(b, x_offset, y_offset, data, 1)

\* GridBuffer.__and__(other): result = LedBuffer(self.width, self.height); ...
\* The module defines no LedBuffer, so the first line raises NameError:
\* nothing is compared, combined or returned.
GridBuffer_and(b, other) == [result |-> None, err |-> "NameError"]

\* GridBuffer.__xor__(other): the same first line
GridBuffer_xor(b, other) == [result |-> None, err |-> "NameError"]

\* GridBuffer.__or__(other): the same first line
GridBuffer_or(b, other) == [result |-> None, err |-> "NameError"]

GridBuffer_led_set(b, x, y, s) == GridBuffer_led_level_set(b, x, y, s * 15)

GridBuffer_led_all(b, s) == GridBuffer_led_level_all(b, s * 15)

\* for x, s in enumerate(data): self.led_set(x_offset + x, y, s)
GridBuffer_led_row(b, x_offset, y, data) ==
    IF y < b.height
    THEN BResult([b EXCEPT !.levels[y + 1] =
                     [c \in 1 .. b.width |->
                         IF c - 1 >= x_offset /\ c - 1 - x_offset < Len(data)
                         THEN data[c - x_offset] * 15 ELSE @[c]]],
                 NoError)
    ELSE BResult(b, NoError)

\* for y, s in enumerate(data): self.led_set(x, y_offset + y, s)
GridBuffer_led_col(b, x, y_offset, data) ==
    IF x < b.width
    THEN BResult([b EXCEPT !.levels =
                     [r \in 1 .. b.height |->
                         IF r - 1 >= y_offset /\ r - 1 - y_offset < Len(data)
                         THEN [@[r] EXCEPT ![x + 1] = data[r - y_offset] * 15]
                         ELSE @[r]]],
                 NoError)
    ELSE BResult(b, NoError)

\* for r, row in enumerate(data): self.led_row(x_offset, y_offset + r, row)
RECURSIVE MapFrom(_, _, _, _, _)
MapFrom(b, x_offset, y_offset, data, r) ==
    IF r > Len(data) THEN BResult(b, NoError)
    ELSE MapFrom(GridBuffer_led_row(b, x_offset, y_offset + r - 1, data[r]).b,
                 x_offset, y_offset, data, r + 1)

GridBuffer_led_map(b, x_offset, y_offset, data) == MapFrom(b, x_offset, y_offset, data, 1)

GridBuffer_get_level_map(b, x_offset, y_offset) ==
    [r \in 1 .. 8 |-> [c \in 1 .. 8 |-> b.levels[y_offset + r][x_offset + c]]]

GridBuffer_get_binary_map(b, x_offset, y_offset) ==
    [r \in 1 .. 8 |->
        [c \in 1 .. 8 |-> IF b.levels[y_offset + r][x_offset + c] > 7 THEN 1 ELSE 0]]

\* for x_offset in [i * 8 for i in range(width // 8)]:
\*     for y_offset in [i * 8 for i in range(height // 8)]:
\*         grid.led_level_map(x_offset, y_offset, self.get_level_map(x_offset, y_offset))
GridBuffer_render(b, g) ==
    LET ny == b.height \div 8
        nx == b.width \div 8
    IN  [k \in 1 .. nx * ny |->
            Grid_led_level_map(g, 8 * ((k - 1) \div ny), 8 * ((k - 1) % ny),
                GridBuffer_get_level_map(b, 8 * ((k - 1) \div ny), 8 * ((k - 1) % ny))).sent[1]]

---------------------------------------------------------------------------
(* Page and BasePageManager.  The manager is itself a Grid (class           *)
(* BasePageManager(Grid)); m holds what the manager and its pages add to    *)
(* it: pages are numbered 0 .. NumPages - 1 as in self.pages.               *)

NumPages == 2

PageIds == 0 .. NumPages - 1

\* BasePageManager.__init__ over pages built by Page.__init__:
\* __buffer = None, __intensity = 15, current_page = pages[0].
\* ready_called[p] records that Page.ready() has been called on page p.
BasePageManager_init ==
    [current_page |-> Some(0),
     presses |-> {},
     buffer |-> [p \in PageIds |-> None],
     intensity |-> [p \in PageIds |-> MaxLevel],
     ready_called |-> [p \in PageIds |-> FALSE]]

\* the result of a Page or manager method: m afterwards and the Grid result
PResult(m, r) == [m |-> m, g |-> r.g, sent |-> r.sent, calls |-> r.calls, err |-> r.err]

\* Page.ready(): self.__buffer = LedBuffer(self.width, self.height).
\* The module defines no LedBuffer (the class is GridBuffer), so the call
\* raises NameError and __buffer keeps its value.
Page_ready(m, g, p) ==
    PResult([m EXCEPT !.ready_called[p] = TRUE], Result(g, <<>>, <<>>, "NameError"))

Page_is_active(m, p) == m.current_page = Some(p)

\* self.__buffer.<cmd>(...)
BufferApply(b, cmd) ==
    CASE cmd[1] = "led_set" -> GridBuffer_led_set(b, cmd[2], cmd[3], cmd[4])
      [] cmd[1] = "led_all" -> GridBuffer_led_all(b, cmd[2])
      [] cmd[1] = "led_map" -> GridBuffer_led_map(b, cmd[2], cmd[3], cmd[4])
      [] cmd[1] = "led_row" -> GridBuffer_led_row(b, cmd[2], cmd[3], cmd[4])
      [] cmd[1] = "led_col" -> GridBuffer_led_col(b, cmd[2], cmd[3], cmd[4])
      [] cmd[1] = "led_level_set" -> GridBuffer_led_level_set(b, cmd[2], cmd[3], cmd[4])
      [] cmd[1] = "led_level_all" -> GridBuffer_led_level_all(b, cmd[2])
      [] cmd[1] = "led_level_map" -> GridBuffer_led_level_map(b, cmd[2], cmd[3], cmd[4])
      [] cmd[1] = "led_level_row" -> GridBuffer_led_level_row(b, cmd[2], cmd[3], cmd[4])
      [] cmd[1] = "led_level_col" -> GridBuffer_led_level_col(b, cmd[2], cmd[3], cmd[4])

\* self.manager.<cmd>(...): the manager inherits the method from Grid
ManagerApply(g, cmd) ==
    CASE cmd[1] = "led_set" -> Grid_led_set(g, cmd[2], cmd[3], cmd[4])
      [] cmd[1] = "led_all" -> Grid_led_all(g, cmd[2])
      [] cmd[1] = "led_map" -> Grid_led_map(g, cmd[2], cmd[3], cmd[4])
      [] cmd[1] = "led_row" -> Grid_led_row(g, cmd[2], cmd[3], cmd[4])
      [] cmd[1] = "led_col" -> Grid_led_col(g, cmd[2], cmd[3], cmd[4])
      [] cmd[1] = "led_level_set" -> Grid_led_level_set(g, cmd[2], cmd[3], cmd[4])
      [] cmd[1] = "led_level_all" -> Grid_led_level_all(g, cmd[2])
      [] cmd[1] = "led_level_map" -> Grid_led_level_map(g, cmd[2], cmd[3], cmd[4])
      [] cmd[1] = "led_level_row" -> Grid_led_level_row(g, cmd[2], cmd[3], cmd[4])
      [] cmd[1] = "led_level_col" -> Grid_led_level_col(g, cmd[2], cmd[3], cmd[4])

\* The body shared by Page.led_set .. Page.led_col and Page.led_level_set ..
\* Page.led_level_col:
\*     self.__buffer.<cmd>(...)
\*     if self.is_active(): self.manager.<cmd>(...)
\* With __buffer None the first line raises AttributeError.
Page_write(m, g, p, cmd) ==
    IF m.buffer[p] = None
    THEN PResult(m, Result(g, <<>>, <<>>, "AttributeError"))
    ELSE LET br == BufferApply(m.buffer[p][1], cmd)
             m1 == [m EXCEPT !.buffer[p] = Some(br.b)]
         IN  IF br.err # NoError THEN PResult(m1, Result(g, <<>>, <<>>, br.err))
             ELSE IF Page_is_active(m1, p) THEN PResult(m1, ManagerApply(g, cmd))
             ELSE PResult(m1, Result(g, <<>>, <<>>, NoError))

Page_led_set(m, g, p, x, y, s) == Page_write(m, g, p, <<"led_set", x, y, s>>)

Page_led_all(m, g, p, s) == Page_write(m, g, p, <<"led_all", s>>)

Page_led_map(m, g, p, x_offset, y_offset, data) ==
    Page_write(m, g, p, <<"led_map", x_offset, y_offset, data>>)

Page_led_row(m, g, p, x_offset, y, data) ==
    Page_write(m, g, p, <<"led_row", x_offset, y, data>>)

Page_led_col(m, g, p, x, y_offset, data) ==
    Page_write(m, g, p, <<"led_col", x, y_offset, data>>)

\* self.__intensity = i; if self.is_active(): self.manager.led_intensity(i)
Page_led_intensity(m, g, p, i) ==
    LET m1 == [m EXCEPT !.intensity[p] = i]
    IN  IF Page_is_active(m1, p) THEN PResult(m1, Grid_led_intensity(g, i))
        ELSE PResult(m1, Result(g, <<>>, <<>>, NoError))

Page_led_level_set(m, g, p, x, y, l) == Page_write(m, g, p, <<"led_level_set", x, y, l>>)

Page_led_level_all(m, g, p, l) == Page_write(m, g, p, <<"led_level_all", l>>)

Page_led_level_map(m, g, p, x_offset, y_offset, data) ==
    Page_write(m, g, p, <<"led_level_map", x_offset, y_offset, data>>)

Page_led_level_row(m, g, p, x_offset, y, data) ==
    Page_write(m, g, p, <<"led_level_row", x_offset, y, data>>)

Page_led_level_col(m, g, p, x, y_offset, data) ==
    Page_write(m, g, p, <<"led_level_col", x, y_offset, data>>)

\* Page.render(): self.__buffer.render(self.manager);
\*                self.manager.led_intensity(self.__intensity)
Page_render(m, g, p) ==
    IF m.buffer[p] = None
    THEN PResult(m, Result(g, <<>>, <<>>, "AttributeError"))
    ELSE PResult(m, Result(g, GridBuffer_render(m.buffer[p][1], g)
                                 \o Grid_led_intensity(g, m.intensity[p]).sent,
                           <<>>, NoError))

RECURSIVE SetToSeq(_)
SetToSeq(S) ==
    IF S = {} THEN <<>>
    ELSE LET e == CHOOSE e \in S : TRUE IN <<e>> \o SetToSeq(S \ {e})

\* the key-ups switch_page sends to the page p that is being left
Releases(p, presses) ==
    LET ks == SetToSeq(presses)
    IN  [i \in 1 .. Len(ks) |-> <<"page_grid_key", p, ks[i][1], ks[i][2], 0>>]

\* switch_page without self._presses.clear()
BasePageManager_switch_page_keep(m, g, page_num) ==
    LET leaving == page_num = -1 \/ Some(page_num) # m.current_page
        keyups == IF leaving /\ m.presses # {} THEN Releases(m.current_page[1], m.presses)
                  ELSE <<>>
        m1 == m
    IN  IF leaving /\ m.presses # {} /\ m.current_page = None
        THEN PResult(m, Result(g, <<>>, <<>>, "AttributeError"))
        ELSE IF page_num = -1
        THEN PResult([m1 EXCEPT !.current_page = None],
                     Result(g, Grid_led_all(g, 0).sent, keyups, NoError))
        ELSE LET m2 == [m1 EXCEPT !.current_page = Some(page_num)]
                 r == Page_render(m2, g, page_num)
             IN  PResult(m2, Result(g, r.sent,
                                    keyups \o << <<"page_render", page_num>> >>, r.err))

\* BasePageManager.switch_page(page_num), page_num = -1 or a page number
BasePageManager_switch_page(m, g, page_num) ==
    LET leaving == page_num = -1 \/ Some(page_num) # m.current_page
        keyups == IF leaving /\ m.presses # {} THEN Releases(m.current_page[1], m.presses)
                  ELSE <<>>
        m1 == IF leaving THEN [m EXCEPT !.presses = {}] ELSE m
    IN  IF leaving /\ m.presses # {} /\ m.current_page = None
        THEN PResult(m, Result(g, <<>>, <<>>, "AttributeError"))
        ELSE IF page_num = -1
        THEN PResult([m1 EXCEPT !.current_page = None],
                     Result(g, Grid_led_all(g, 0).sent, keyups, NoError))
        ELSE LET m2 == [m1 EXCEPT !.current_page = Some(page_num)]
                 r == Page_render(m2, g, page_num)
             IN  PResult(m2, Result(g, r.sent,
                                    keyups \o << <<"page_render", page_num>> >>, r.err))

\* BasePageManager.ready(): super().ready(); for page in self.pages: ...
\* Neither Grid nor the protocol classes under it define ready, so the
\* first line raises AttributeError and no page is made ready.
BasePageManager_ready(m, g) == PResult(m, Result(g, <<>>, <<>>, "AttributeError"))

\* BasePageManager.grid_key(x, y, s): the pressed set is updated first, then
\* self.current_page.grid_key(x, y, s), which raises with no current page
BasePageManager_grid_key(m, g, x, y, s) ==
    LET m1 == [m EXCEPT !.presses = IF s = 1 THEN @ \cup {<<x, y>>} ELSE @ \ {<<x, y>>}]
    IN  IF m1.current_page = None
        THEN PResult(m1, Result(g, <<>>, <<>>, "AttributeError"))
        ELSE PResult(m1, Result(g, <<>>,
                 << <<"page_grid_key", m1.current_page[1], x, y, s>> >>, NoError))

---------------------------------------------------------------------------
(* SumPageManager and SeqPageManager: a BasePageManager with a switch      *)
(* button.  switch_x, switch_y and selected_page are attributes that exist *)
(* only once assigned: None here stands for "no such attribute".           *)

\* SumPageManager.__init__ / SeqPageManager.__init__(pages, switch_button)
SwitchManager_init(kind, switch_button) ==
    [kind |-> kind,
     current_page |-> Some(0),
     presses |-> {},
     buffer |-> [p \in PageIds |-> None],
     intensity |-> [p \in PageIds |-> MaxLevel],
     ready_called |-> [p \in PageIds |-> FALSE],
     switch_button |-> switch_button,
     switch_x |-> None,
     switch_y |-> None,
     selected_page |-> None]

\* self.width + switch_x if switch_x < 0 else switch_x
FromEdge(size, c) == IF c < 0 THEN size + c ELSE c

\* SumPageManager.ready() and SeqPageManager.ready() (the same body):
\*     super().ready()
\*     self.switch_x = ...; self.switch_y = ...
\* The assignments are reached only if BasePageManager.ready() returns.
SwitchManager_ready(m, g) ==
    LET r == BasePageManager_ready(m, g)
    IN  IF r.err # NoError THEN r
        ELSE PResult([r.m EXCEPT !.switch_x = Some(FromEdge(g.width[1], m.switch_button[1])),
                                 !.switch_y = Some(FromEdge(g.height[1], m.switch_button[2]))],
                     Result(g, r.sent, r.calls, NoError))

\* SeqPageManager.grid_key(x, y, s)
SeqPageManager_grid_key(m, g, x, y, s) ==
    IF m.presses = {} /\ m.switch_x = None
    THEN PResult(m, Result(g, <<>>, <<>>, "AttributeError"))
    ELSE IF m.presses = {} /\ x = m.switch_x[1] /\ y = m.switch_y[1] /\ s = 1
    THEN IF m.current_page = None
         THEN PResult(m, Result(g, <<>>, <<>>, "ValueError"))
         ELSE BasePageManager_switch_page(m, g, (m.current_page[1] + 1) % NumPages)
    ELSE BasePageManager_grid_key(m, g, x, y, s)

\* SumPageManager.display_chooser()
SumPageManager_display_chooser(m, g) ==
    LET page_row == [i \in 1 .. g.width[1] |-> IF i - 1 < NumPages THEN 1 ELSE 0]
    IN  Grid_led_all(g, 0).sent
            \o Grid_led_row(g, 0, g.height[1] - 1, page_row).sent
            \o Grid_led_col(g, m.selected_page[1], 0, [i \in 1 .. g.height[1] |-> 1]).sent

\* SumPageManager.grid_key(x, y, s)
SumPageManager_grid_key(m, g, x, y, s) ==
    IF m.presses = {} /\ m.switch_x = None
    THEN PResult(m, Result(g, <<>>, <<>>, "AttributeError"))
    ELSE IF m.presses = {} /\ x = m.switch_x[1] /\ y = m.switch_y[1]
    THEN IF s = 1
         THEN IF m.current_page = None
              THEN PResult(m, Result(g, <<>>, <<>>, "ValueError"))
              ELSE LET m1 == [m EXCEPT !.selected_page = m.current_page]
                       r == BasePageManager_switch_page(m1, g, -1)
                   IN  PResult(r.m, Result(g, r.sent \o SumPageManager_display_chooser(r.m, g),
                                           r.calls, r.err))
         ELSE IF m.selected_page = None
              THEN PResult(m, Result(g, <<>>, <<>>, "AttributeError"))
              ELSE BasePageManager_switch_page(m, g, m.selected_page[1])
    ELSE IF m.current_page = None
    THEN IF x < NumPages
         THEN LET m1 == [m EXCEPT !.selected_page = Some(x)]
              IN  PResult(m1, Result(g, SumPageManager_display_chooser(m1, g), <<>>, NoError))
         ELSE PResult(m, Result(g, <<>>, <<>>, NoError))
    ELSE BasePageManager_grid_key(m, g, x, y, s)

---------------------------------------------------------------------------
(* Section and Splitter.  The Splitter is itself a Grid (class              *)
(* Splitter(Grid)): a Section's self.splitter.<method> is the Grid method.  *)

\* Section.__init__(splitter, size, offset)
Section_init(size, offset) ==
    [part_width |-> size[1], part_height |-> size[2],
     part_offset_x |-> offset[1], part_offset_y |-> offset[2]]

\* data[:k] for k >= 0
Take(data, k) == SubSeq(data, 1, IF Len(data) < k THEN Len(data) ELSE k)

Section_led_set(sec, g, x, y, s) ==
    IF x < sec.part_width /\ y < sec.part_height
    THEN Grid_led_set(g, x + sec.part_offset_x, y + sec.part_offset_y, s)
    ELSE Result(g, <<>>, <<>>, NoError)

\* data = [[s for col in range(8)] for row in range(8)]
Section_led_all(sec, g, s) ==
    Grid_led_map(g, sec.part_offset_x, sec.part_offset_y,
                 [r \in 1 .. 8 |-> [c \in 1 .. 8 |-> s]])

Section_led_map(sec, g, x_offset, y_offset, data) ==
    Grid_led_map(g, sec.part_offset_x + x_offset, sec.part_offset_y + y_offset, data)

Section_led_row(sec, g, x_offset, y, data) ==
    Grid_led_row(g, sec.part_offset_x + x_offset, sec.part_offset_y + y,
                 Take(data, sec.part_width))

Section_led_col(sec, g, x, y_offset, data) ==
    Grid_led_col(g, sec.part_offset_x + x, sec.part_offset_y + y_offset,
                 Take(data, sec.part_height))

Section_led_intensity(sec, g, i) == Grid_led_intensity(g, i)

Section_led_level_set(sec, g, x, y, l) ==
    IF x < sec.part_width /\ y < sec.part_height
    THEN Grid_led_level_set(g, sec.part_offset_x + x, sec.part_offset_y + y, l)
    ELSE Result(g, <<>>, <<>>, NoError)

\* data = [[l for col in range(8)] for row in range(8)]
\* self.splitter.led_map(...): the binary map command, given levels
Section_led_level_all(sec, g, l) ==
    Grid_led_map(g, sec.part_offset_x, sec.part_offset_y,
                 [r \in 1 .. 8 |-> [c \in 1 .. 8 |-> l]])

Section_led_level_map(sec, g, x_offset, y_offset, data) ==
    Grid_led_level_map(g, sec.part_offset_x + x_offset, sec.part_offset_y + y_offset, data)

Section_led_level_row(sec, g, x_offset, y, data) ==
    Grid_led_level_row(g, sec.part_offset_x + x_offset, sec.part_offset_y + y,
                       Take(data, sec.part_width))

Section_led_level_col(sec, g, x, y_offset, data) ==
    Grid_led_level_col(g, sec.part_offset_x + x, sec.part_offset_y + y_offset,
                       Take(data, sec.part_height))

\* part.part_offset_x <= x < part.part_offset_x + part.part_width and ...
Section_contains(sec, x, y) ==
    /\ sec.part_offset_x <= x
    /\ x < sec.part_offset_x + sec.part_width
    /\ sec.part_offset_y <= y
    /\ y < sec.part_offset_y + sec.part_height

\* Splitter.grid_key(x, y, s): the loop over self.sections from index i on;
\* every Section that contains (x, y) gets part.grid_key, the loop goes on
RECURSIVE Splitter_grid_key_from(_, _, _, _, _)
Splitter_grid_key_from(sections, i, x, y, s) ==
    IF i > Len(sections) THEN <<>>
    ELSE (IF Section_contains(sections[i], x, y)
          THEN << <<"section_grid_key", i - 1,
                    x - sections[i].part_offset_x, y - sections[i].part_offset_y, s>> >>
          ELSE <<>>)
         \o Splitter_grid_key_from(sections, i + 1, x, y, s)

Splitter_grid_key(sections, g, x, y, s) ==
    Result(g, <<>>, Splitter_grid_key_from(sections, 1, x, y, s), NoError)

---------------------------------------------------------------------------
(* SerialOsc: the client of the serialosc discovery service.  tasks holds   *)
(* the ports of the autoconnect coroutines scheduled and not yet run.       *)

\* SerialOsc.__init__(loop, autoconnect_app): host and port are assigned in
\* connection_made
SerialOsc_init(autoconnect_app) ==
    [autoconnect_app |-> autoconnect_app, host |-> None, port |-> None, tasks |-> <<>>]

\* the result of a SerialOsc method: the client afterwards and what it sent
OResult(o, s) == [o |-> o, sent |-> s]

\* SerialOsc.connection_made(transport)
SerialOsc_connection_made(o) ==
    OResult([o EXCEPT !.host = Some(HOST), !.port = Some(PORT)],
            << <<"/serialosc/list", HOST, PORT>>, <<"/serialosc/notify", HOST, PORT>> >>)

\* SerialOsc.on_device_added(id, type, port): schedules autoconnect(app, port)
SerialOsc_on_device_added(o, id, type, port) ==
    IF o.autoconnect_app # None THEN [o EXCEPT !.tasks = Append(@, port)] ELSE o

\* SerialOsc.on_device_removed(id, type, port): pass
SerialOsc_on_device_removed(o, id, type, port) == o

\* a /serialosc/device handler that renews the subscription as well
SerialOsc_on_serialosc_device_renew(o, id, type, port) ==
    OResult(SerialOsc_on_device_added(o, id, type, port),
            << <<"/serialosc/notify", o.host[1], o.port[1]>> >>)

\* SerialOsc.__on_serialosc_device(addr, path, id, type, port)
SerialOsc_on_serialosc_device(o, id, type, port) ==
    OResult(SerialOsc_on_device_added(o, id, type, port), <<>>)

\* SerialOsc.__on_serialosc_add(addr, path, id, type, port)
SerialOsc_on_serialosc_add(o, id, type, port) ==
    OResult(SerialOsc_on_device_added(o, id, type, port),
            << <<"/serialosc/notify", o.host[1], o.port[1]>> >>)

\* SerialOsc.__on_serialosc_remove(addr, path, id, type, port)
SerialOsc_on_serialosc_remove(o, id, type, port) ==
    OResult(SerialOsc_on_device_removed(o, id, type, port),
            << <<"/serialosc/notify", o.host[1], o.port[1]>> >>)

\* SerialOsc.autoconnect(app, grid_port): a Grid endpoint is created
\* (Grid.__init__, connection_made) and app.attach(grid) is called
SerialOsc_autoconnect(o) ==
    [o |-> [o EXCEPT !.tasks = Tail(@)], r |-> App_attach(Grid_init)]

---------------------------------------------------------------------------
(* the device at the other end of the link: its LED levels and intensity,  *)
(* as the serialosc grid commands change them                              *)

Device_init(width, height, i) ==
    [levels |-> [r \in 1 .. height |-> [c \in 1 .. width |-> 0]], intensity |-> i]

Bit(b, c) == (b \div Shl(1, c)) % 2

\* the level of the LED at (x, y) after the message, given its level before
Device_cell(msg, x, y, old) ==
    LET path == msg[1]
        a == Tail(msg)
        n == Len(a) - 2
    IN  CASE path = Path("/grid/led/set") ->
                IF x = a[1] /\ y = a[2] THEN a[3] * MaxLevel ELSE old
          [] path = Path("/grid/led/all") -> a[1] * MaxLevel
          [] path = Path("/grid/led/map") ->
                IF x - a[1] \in 0 .. 7 /\ y - a[2] \in 0 .. 7
                THEN Bit(a[3 + (y - a[2])], x - a[1]) * MaxLevel ELSE old
          [] path = Path("/grid/led/row") ->
                IF y = a[2] /\ x >= a[1] /\ x - a[1] < 8 * n
                THEN Bit(a[3 + ((x - a[1]) \div 8)], (x - a[1]) % 8) * MaxLevel ELSE old
          [] path = Path("/grid/led/col") ->
                IF x = a[1] /\ y >= a[2] /\ y - a[2] < 8 * n
                THEN Bit(a[3 + ((y - a[2]) \div 8)], (y - a[2]) % 8) * MaxLevel ELSE old
          [] path = Path("/grid/led/level/set") ->
                IF x = a[1] /\ y = a[2] THEN a[3] ELSE old
          [] path = Path("/grid/led/level/all") -> a[1]
          [] path = Path("/grid/led/level/map") ->
                IF x - a[1] \in 0 .. 7 /\ y - a[2] \in 0 .. 7
                THEN a[3 + 8 * (y - a[2]) + (x - a[1])] ELSE old
          [] path = Path("/grid/led/level/row") ->
                IF y = a[2] /\ x >= a[1] /\ x - a[1] < n THEN a[3 + (x - a[1])] ELSE old
          [] path = Path("/grid/led/level/col") ->
                IF x = a[1] /\ y >= a[2] /\ y - a[2] < n THEN a[3 + (y - a[2])] ELSE old
          [] OTHER -> old

Device_apply(d, msg) ==
    [levels |-> [r \in 1 .. Len(d.levels) |->
                    [c \in 1 .. Len(d.levels[r]) |-> Device_cell(msg, c - 1, r - 1, d.levels[r][c])]],
     intensity |-> IF msg[1] = Path("/grid/led/intensity") THEN msg[2] ELSE d.intensity]

RECURSIVE Device_run(_, _)
Device_run(d, msgs) ==
    IF msgs = <<>> THEN d ELSE Device_run(Device_apply(d, Head(msgs)), Tail(msgs))

---------------------------------------------------------------------------
(* inputs *)

MaxCoord == 1

MaxTilt == 1

Coords == 0 .. MaxCoord

TiltVals == 0 .. MaxTilt

Ids ==
    { <<"m", "6", "4">>, <<"m", "1">>, <<"m">>,
      <<"m", "6", "x">>, <<"k", "6">> }

Sizes == { <<8, 8>>, <<16, 8>> }

Rotations == {0, 90}

---------------------------------------------------------------------------
(* the link: handshake and inbound events *)

Step(r, o) ==
    /\ grid' = r.g
    /\ sent' = r.sent
    /\ calls' = r.calls
    /\ err' = r.err
    /\ op' = o
    /\ pre' = grid.state

\* the page manager as constructed, and a device showing nothing
PageInit ==
    /\ mgr = BasePageManager_init
    /\ mgrB = BasePageManager_init
    /\ dev = Device_init(8, 8, MaxLevel)
    /\ devB = Device_init(8, 8, MaxLevel)
    /\ phase = 0

Init ==
    /\ PageInit
    /\ grid = Grid_init
    /\ app_grid = None
    /\ op = <<"init">>
    /\ sent = <<>>
    /\ calls = <<>>
    /\ err = NoError
    /\ pre = DISCONNECTED

Connect ==
    /\ Step(Grid_connect(grid), <<"connect">>)
    /\ UNCHANGED app_grid
    /\ UNCHANGED pagevars

Attach ==
    /\ Step(App_attach(grid), <<"attach">>)
    /\ app_grid' = Some(TheGrid)
    /\ UNCHANGED pagevars

Detach ==
    /\ Step(App_detach(grid, app_grid), <<"detach">>)
    /\ app_grid' = None
    /\ UNCHANGED pagevars

\* an inbound message, dispatched through the handler table
Recv(msg) == Step(Grid_handlers(grid, msg), <<"recv">> \o msg)

RecvSysId ==
    \E i \in Ids :
        /\ Recv(<<"/sys/id", i>>)
        /\ UNCHANGED <<app_grid, mgr, dev, mgrB, devB, phase>>

RecvSysSize ==
    \E s \in Sizes :
        /\ Recv(<<"/sys/size", s[1], s[2]>>)
        /\ UNCHANGED <<app_grid, mgr, dev, mgrB, devB, phase>>

RecvSysRotation ==
    \E r \in Rotations :
        /\ Recv(<<"/sys/rotation", r>>)
        /\ UNCHANGED <<app_grid, mgr, dev, mgrB, devB, phase>>

RecvSysEcho ==
    \E msg \in { <<"/sys/host", HOST>>, <<"/sys/port", PORT>>, <<"/sys/prefix", PREFIX>> } :
        /\ Recv(msg)
        /\ UNCHANGED <<app_grid, mgr, dev, mgrB, devB, phase>>

RecvSysConnect ==
    /\ Recv(<<"/sys/connect">>)
    /\ UNCHANGED <<app_grid, mgr, dev, mgrB, devB, phase>>

RecvSysDisconnect ==
    /\ Recv(<<"/sys/disconnect">>)
    /\ UNCHANGED <<app_grid, mgr, dev, mgrB, devB, phase>>

RecvKey ==
    \E x \in Coords, y \in Coords, s \in {0, 1} :
        /\ Recv(<<Path("/grid/key"), x, y, s>>)
        /\ UNCHANGED <<app_grid, mgr, dev, mgrB, devB, phase>>

RecvTilt ==
    \E n \in {0}, x \in TiltVals, y \in TiltVals, z \in TiltVals :
        /\ Recv(<<Path("/tilt"), n, x, y, z>>)
        /\ UNCHANGED <<app_grid, mgr, dev, mgrB, devB, phase>>

Next ==
    \/ Connect
    \/ Attach
    \/ Detach
    \/ RecvSysId
    \/ RecvSysSize
    \/ RecvSysRotation
    \/ RecvSysEcho
    \/ RecvSysConnect
    \/ RecvSysDisconnect
    \/ RecvKey
    \/ RecvTilt

Spec == Init /\ [][Next]_vars

---------------------------------------------------------------------------
(* properties of the link *)

IsRecv(o, path) == o[1] = "recv" /\ o[2] = path

PathsOf(msgs) == [i \in 1 .. Len(msgs) |-> msgs[i][1]]

HandshakePaths ==
    <<"/sys/host", "/sys/port", "/sys/prefix", "/sys/info/id", "/sys/info/size">>

\* C1: connect() called while Connecting or Ready changes nothing of the Grid
\* and sends nothing; called while Disconnected it moves the state to
\* Connecting, leaves the identity alone and sends the five handshake
\* requests (host, port, prefix, id request, size request) once each.
C1_ConnectIdempotent ==
    [][ op' = <<"connect">> =>
          IF grid.state \in {CONNECTING, READY}
          THEN grid' = grid /\ sent' = <<>>
          ELSE /\ grid' = [grid EXCEPT !.state = CONNECTING]
               /\ PathsOf(sent') = HandshakePaths ]_vars

C1_Witness ==
    /\ op = <<"connect">>
    /\ pre = CONNECTING
    /\ grid.state = CONNECTING
    /\ sent = <<>>

\* C2: on an id or size reply received while Connecting, the state becomes
\* Ready exactly when id and size are then both known, and the registered
\* listener gets one "ready" notification exactly then; with only one of the
\* two known the state is not Ready and nothing is notified.
C2_ReadyWhenBothKnown ==
    [][ (grid.state = CONNECTING /\ (IsRecv(op', "/sys/id") \/ IsRecv(op', "/sys/size"))) =>
          LET both == grid'.id # None /\ grid'.width # None /\ grid'.height # None
          IN  /\ (grid'.state = READY) <=> both
              /\ ~both => grid'.state = CONNECTING
              /\ calls' = IF both /\ grid.event_handler # None
                          THEN << <<"on_grid_ready">> >> ELSE <<>> ]_vars

C2_Witness ==
    /\ IsRecv(op, "/sys/id")
    /\ pre = CONNECTING
    /\ grid.state = READY
    /\ calls = << <<"on_grid_ready">> >>

\* C3: a /sys/disconnect notification received in any state sets the state to
\* Disconnected, closes the local endpoint and gives the registered listener
\* a "disconnected" notification.
C3_DisconnectClaim ==
    [][ IsRecv(op', "/sys/disconnect") =>
          /\ grid'.state = DISCONNECTED
          /\ grid'.closed
          /\ grid.event_handler # None => calls' = << <<"on_grid_disconnect">> >> ]_vars

\* C4: a Disconnected link stays Disconnected under every inbound message,
\* and Ready is entered from Connecting only.
C4_ReadyOnlyFromConnectingClaim ==
    [][ /\ (grid.state = DISCONNECTED /\ op'[1] = "recv") => grid'.state = DISCONNECTED
        /\ (grid'.state = READY /\ grid.state # READY) => grid.state = CONNECTING ]_vars

\* C5: a Connecting link whose id or size is still unknown after a step is
\* still Connecting after it (neither Ready nor Disconnected), and the step
\* has sent no handshake request: no timeout and no retry.
C5_StuckConnecting ==
    [][ (grid.state = CONNECTING /\ (grid'.id = None \/ grid'.width = None \/ grid'.height = None)) =>
          /\ grid'.state = CONNECTING
          /\ \A i \in 1 .. Len(sent') : sent'[i][1] \notin {"/sys/host", "/sys/port", "/sys/prefix", "/sys/info/id", "/sys/info/size"} ]_vars

C5_Witness ==
    /\ IsRecv(op, "/sys/id")
    /\ pre = CONNECTING
    /\ grid.state = CONNECTING
    /\ grid.id # None
    /\ grid.width = None

\* "m" followed by one or more digits
IsMThenDigits(s) ==
    /\ Len(s) >= 2
    /\ s[1] = "m"
    /\ \A i \in 2 .. Len(s) : s[i] \in Digits

\* C6: whenever the link is Ready, varibright is true exactly when the
\* current device id is "m" followed by one or more digits.
C6_VaribrightClaim ==
    grid.state = READY => (grid.varibright <=> IsMThenDigits(grid.id[1]))

\* C8: an inbound key event gives the registered listener exactly one key
\* callback with the event's (x, y, state), an inbound tilt event exactly one
\* tilt callback with the event's (sensor, x, y, z), both without error; with
\* no listener registered the event is dropped.
C8_EventCallbackClaim ==
    /\ IsRecv(op, Path("/grid/key")) =>
          /\ err = NoError
          /\ calls = IF grid.event_handler = None THEN <<>>
                     ELSE << <<"on_grid_key", op[3], op[4], op[5]>> >>
    /\ IsRecv(op, Path("/tilt")) =>
          /\ err = NoError
          /\ calls = IF grid.event_handler = None THEN <<>>
                     ELSE << <<"on_tilt", op[3], op[4], op[5], op[6]>> >>

---------------------------------------------------------------------------
(* the command encoder: level commands on a Ready link *)

\* a link that went through attach, a size reply and the id reply i
ReadyGrid(i) ==
    Grid_sys_info(Grid_sys_info(App_attach(Grid_init).g, "/sys/size", <<8, 8>>).g,
                  "/sys/id", <<i>>).g

\* a row of n levels starting at l and running through all sixteen levels
LevelRow(l, n) == [i \in 1 .. n |-> (l + i - 1) % (MaxLevel + 1)]

\* an 8x8 map: uniformly l (k = 0) or a diagonal gradient from l
LevelMap(l, k) ==
    [r \in 1 .. 8 |-> [c \in 1 .. 8 |-> IF k = 0 THEN l ELSE (l + r + c) % (MaxLevel + 1)]]

LevelMaps == {LevelMap(l, 0) : l \in Levels} \cup {LevelMap(l, 1) : l \in {0, 5, 11}}

LevelRows == {LevelRow(l, n) : l \in {0, 5, 11}, n \in {3, 8, 16}}

Offsets == {0, 8}

CmdInit ==
    /\ PageInit
    /\ grid \in {ReadyGrid(i) : i \in Ids}
    /\ app_grid = Some(TheGrid)
    /\ op = <<"init">>
    /\ sent = <<>>
    /\ calls = <<>>
    /\ err = NoError
    /\ pre = READY

LedLevelSet ==
    \E x \in Coords, y \in Coords, l \in Levels :
        /\ Step(Grid_led_level_set(grid, x, y, l), <<"led_level_set", x, y, l>>)
        /\ UNCHANGED <<app_grid, mgr, dev, mgrB, devB, phase>>

LedLevelAll ==
    \E l \in Levels :
        /\ Step(Grid_led_level_all(grid, l), <<"led_level_all", l>>)
        /\ UNCHANGED <<app_grid, mgr, dev, mgrB, devB, phase>>

LedLevelMap ==
    \E xo \in Offsets, data \in LevelMaps :
        /\ Step(Grid_led_level_map(grid, xo, 0, data), <<"led_level_map", xo, 0, data>>)
        /\ UNCHANGED <<app_grid, mgr, dev, mgrB, devB, phase>>

LedLevelRow ==
    \E xo \in Offsets, y \in Coords, data \in LevelRows :
        /\ Step(Grid_led_level_row(grid, xo, y, data), <<"led_level_row", xo, y, data>>)
        /\ UNCHANGED <<app_grid, mgr, dev, mgrB, devB, phase>>

LedLevelCol ==
    \E x \in Coords, yo \in Offsets, data \in LevelRows :
        /\ Step(Grid_led_level_col(grid, x, yo, data), <<"led_level_col", x, yo, data>>)
        /\ UNCHANGED <<app_grid, mgr, dev, mgrB, devB, phase>>

CmdNext ==
    \/ LedLevelSet
    \/ LedLevelAll
    \/ LedLevelMap
    \/ LedLevelRow
    \/ LedLevelCol

SpecCmd == CmdInit /\ [][CmdNext]_vars

\* levels 0..7 are off, levels 8..15 are on
Binary(l) == IF l \in 0 .. 7 THEN 0 ELSE 1

\* the byte whose bit c is the c-th of eight on/off values
ByteOf(b) ==
    b[1] + 2 * b[2] + 4 * b[3] + 8 * b[4] + 16 * b[5] + 32 * b[6] + 64 * b[7] + 128 * b[8]

\* the bytes of a binary row or column command for the levels in data
BinaryBytes(data) ==
    [i \in 1 .. (Len(data) \div 8) |-> ByteOf([c \in 1 .. 8 |-> Binary(data[8 * (i - 1) + c])])]

\* C7: on a varibright link every level command is sent as the native level
\* command with its levels unchanged; on a link that is not varibright it is
\* sent as the binary command of the same kind, each level l replaced by 0
\* for l in 0..7 and by 1 for l in 8..15.
C7_LevelDowngrade ==
    /\ err = NoError
    /\ op[1] = "led_level_set" =>
          sent = << IF grid.varibright
                    THEN <<Path("/grid/led/level/set"), op[2], op[3], op[4]>>
                    ELSE <<Path("/grid/led/set"), op[2], op[3], Binary(op[4])>> >>
    /\ op[1] = "led_level_all" =>
          sent = << IF grid.varibright
                    THEN <<Path("/grid/led/level/all"), op[2]>>
                    ELSE <<Path("/grid/led/all"), Binary(op[2])>> >>
    /\ op[1] = "led_level_map" =>
          sent = << IF grid.varibright
                    THEN <<Path("/grid/led/level/map"), op[2], op[3]>>
                             \o [i \in 1 .. 64 |-> op[4][((i - 1) \div 8) + 1][((i - 1) % 8) + 1]]
                    ELSE <<Path("/grid/led/map"), op[2], op[3]>>
                             \o [r \in 1 .. 8 |-> ByteOf([c \in 1 .. 8 |-> Binary(op[4][r][c])])] >>
    /\ op[1] = "led_level_row" =>
          sent = << IF grid.varibright
                    THEN <<Path("/grid/led/level/row"), op[2], op[3]>> \o op[4]
                    ELSE <<Path("/grid/led/row"), op[2], op[3]>> \o BinaryBytes(op[4]) >>
    /\ op[1] = "led_level_col" =>
          sent = << IF grid.varibright
                    THEN <<Path("/grid/led/level/col"), op[2], op[3]>> \o op[4]
                    ELSE <<Path("/grid/led/col"), op[2], op[3]>> \o BinaryBytes(op[4]) >>

C7_Witness ==
    /\ op[1] = "led_level_row"
    /\ ~grid.varibright
    /\ Len(op[4]) = 8
    /\ \E i \in 1 .. 8 : op[4][i] = 7
    /\ \E i \in 1 .. 8 : op[4][i] = 8
    /\ Len(sent) = 1
    /\ Len(sent[1]) = 4

---------------------------------------------------------------------------
(* pages: LED writes on the pages of a manager whose link is Ready *)

BinRows == { <<1, 0, 1, 1, 0, 0, 1, 0>>, <<1, 1, 1>> }

BinMap == [r \in 1 .. 8 |-> [c \in 1 .. 8 |-> (r + c) % 2]]

CmdsLedSet == { <<"led_set", x, 0, s>> : x \in Coords, s \in {0, 1} }

CmdsLedAll == { <<"led_all", s>> : s \in {0, 1} }

CmdsLedMap == { <<"led_map", 0, 0, BinMap>> }

CmdsLedRow == { <<"led_row", 0, 0, d>> : d \in BinRows }

CmdsLedCol == { <<"led_col", 0, 0, d>> : d \in BinRows }

CmdsLedIntensity == { <<"led_intensity", i>> : i \in {0, 7} }

CmdsLedLevelSet == { <<"led_level_set", x, 0, l>> : x \in Coords, l \in {7, 8} }

CmdsLedLevelAll == { <<"led_level_all", l>> : l \in {7, 8} }

CmdsLedLevelMap == { <<"led_level_map", 0, 0, LevelMap(5, 1)>> }

CmdsLedLevelRow == { <<"led_level_row", 0, 0, LevelRow(5, 8)>> }

CmdsLedLevelCol == { <<"led_level_col", 0, 0, LevelRow(5, 8)>> }

\* page p's method named by cmd[1], called with the arguments cmd[2], ...
PageCall(m, g, p, cmd) ==
    CASE cmd[1] = "led_set" -> Page_led_set(m, g, p, cmd[2], cmd[3], cmd[4])
      [] cmd[1] = "led_all" -> Page_led_all(m, g, p, cmd[2])
      [] cmd[1] = "led_map" -> Page_led_map(m, g, p, cmd[2], cmd[3], cmd[4])
      [] cmd[1] = "led_row" -> Page_led_row(m, g, p, cmd[2], cmd[3], cmd[4])
      [] cmd[1] = "led_col" -> Page_led_col(m, g, p, cmd[2], cmd[3], cmd[4])
      [] cmd[1] = "led_intensity" -> Page_led_intensity(m, g, p, cmd[2])
      [] cmd[1] = "led_level_set" -> Page_led_level_set(m, g, p, cmd[2], cmd[3], cmd[4])
      [] cmd[1] = "led_level_all" -> Page_led_level_all(m, g, p, cmd[2])
      [] cmd[1] = "led_level_map" -> Page_led_level_map(m, g, p, cmd[2], cmd[3], cmd[4])
      [] cmd[1] = "led_level_row" -> Page_led_level_row(m, g, p, cmd[2], cmd[3], cmd[4])
      [] cmd[1] = "led_level_col" -> Page_led_level_col(m, g, p, cmd[2], cmd[3], cmd[4])

ManagerGrids == { ReadyGrid(<<"m", "6", "4">>), ReadyGrid(<<"k", "6">>) }

PagesInit ==
    /\ PageInit
    /\ grid \in ManagerGrids
    /\ app_grid = Some(TheGrid)
    /\ op = <<"init">>
    /\ sent = <<>>
    /\ calls = <<>>
    /\ err = NoError
    /\ pre = READY

PStep(r, o) ==
    /\ mgr' = r.m
    /\ grid' = r.g
    /\ sent' = r.sent
    /\ calls' = r.calls
    /\ err' = r.err
    /\ op' = o
    /\ pre' = grid.state

PWrite(p, cmd) == PStep(PageCall(mgr, grid, p, cmd), <<"page", p, cmd>>)

PageReady ==
    \E p \in PageIds :
        /\ PStep(Page_ready(mgr, grid, p), <<"ready", p>>)
        /\ UNCHANGED <<app_grid, dev, mgrB, devB, phase>>

PageLedSet ==
    \E p \in PageIds, c \in CmdsLedSet :
        /\ PWrite(p, c)
        /\ UNCHANGED <<app_grid, dev, mgrB, devB, phase>>

PageLedAll ==
    \E p \in PageIds, c \in CmdsLedAll :
        /\ PWrite(p, c)
        /\ UNCHANGED <<app_grid, dev, mgrB, devB, phase>>

PageLedMap ==
    \E p \in PageIds, c \in CmdsLedMap :
        /\ PWrite(p, c)
        /\ UNCHANGED <<app_grid, dev, mgrB, devB, phase>>

PageLedRow ==
    \E p \in PageIds, c \in CmdsLedRow :
        /\ PWrite(p, c)
        /\ UNCHANGED <<app_grid, dev, mgrB, devB, phase>>

PageLedCol ==
    \E p \in PageIds, c \in CmdsLedCol :
        /\ PWrite(p, c)
        /\ UNCHANGED <<app_grid, dev, mgrB, devB, phase>>

PageLedIntensity ==
    \E p \in PageIds, c \in CmdsLedIntensity :
        /\ PWrite(p, c)
        /\ UNCHANGED <<app_grid, dev, mgrB, devB, phase>>

PageLedLevelSet ==
    \E p \in PageIds, c \in CmdsLedLevelSet :
        /\ PWrite(p, c)
        /\ UNCHANGED <<app_grid, dev, mgrB, devB, phase>>

PageLedLevelAll ==
    \E p \in PageIds, c \in CmdsLedLevelAll :
        /\ PWrite(p, c)
        /\ UNCHANGED <<app_grid, dev, mgrB, devB, phase>>

PageLedLevelMap ==
    \E p \in PageIds, c \in CmdsLedLevelMap :
        /\ PWrite(p, c)
        /\ UNCHANGED <<app_grid, dev, mgrB, devB, phase>>

PageLedLevelRow ==
    \E p \in PageIds, c \in CmdsLedLevelRow :
        /\ PWrite(p, c)
        /\ UNCHANGED <<app_grid, dev, mgrB, devB, phase>>

PageLedLevelCol ==
    \E p \in PageIds, c \in CmdsLedLevelCol :
        /\ PWrite(p, c)
        /\ UNCHANGED <<app_grid, dev, mgrB, devB, phase>>

SwitchPage ==
    \E n \in {-1} \cup PageIds :
        /\ PStep(BasePageManager_switch_page(mgr, grid, n), <<"switch_page", n>>)
        /\ UNCHANGED <<app_grid, dev, mgrB, devB, phase>>

PagesNext ==
    \/ PageReady
    \/ PageLedSet
    \/ PageLedAll
    \/ PageLedMap
    \/ PageLedRow
    \/ PageLedCol
    \/ PageLedIntensity
    \/ PageLedLevelSet
    \/ PageLedLevelAll
    \/ PageLedLevelMap
    \/ PageLedLevelRow
    \/ PageLedLevelCol
    \/ SwitchPage

SpecPages == PagesInit /\ [][PagesNext]_vars

\* the surface of page p before a write: as allocated by ready() if the page
\* holds none
SurfaceOf(m, g, p) ==
    IF m.buffer[p] = None THEN GridBuffer_init(g.width[1], g.height[1]) ELSE m.buffer[p][1]

\* C9: an LED write on a page whose ready() has been called raises nothing;
\* it updates the page's private surface (led_intensity: the stored
\* intensity); it sends nothing to the device while the page is not the
\* manager's current page, and forwards the same command while it is.
C9_PageWriteClaim ==
    [][ (op'[1] = "page" /\ mgr.ready_called[op'[2]]) =>
          LET p == op'[2]
              cmd == op'[3]
          IN  /\ err' = NoError
              /\ IF cmd[1] = "led_intensity"
                 THEN mgr'.intensity[p] = cmd[2]
                 ELSE /\ mgr'.buffer[p] # None
                      /\ mgr'.buffer[p][1] = BufferApply(SurfaceOf(mgr, grid, p), cmd).b
              /\ IF mgr.current_page # Some(p) THEN sent' = <<>>
                 ELSE IF cmd[1] = "led_intensity"
                 THEN sent' = << <<Path("/grid/led/intensity"), cmd[2]>> >>
                 ELSE sent' = ManagerApply(grid, cmd).sent ]_vars

---------------------------------------------------------------------------
(* the shadow buffer: the same writes on a page in two orders.  In the run *)
(* (mgr, dev) the page is written while it is not current and then         *)
(* switched to; in the run (mgrB, devB) it is switched to first and then   *)
(* written.  Both runs use the same link and start from the same display.  *)

MaxWrites == 2

\* the page the two runs write: not pages[0], which is current at the start
ShadowPage == NumPages - 1

ShadowDone == MaxWrites + 3

ShadowCmds ==
    CmdsLedSet \cup CmdsLedAll \cup CmdsLedMap \cup CmdsLedRow \cup CmdsLedCol
        \cup CmdsLedIntensity \cup CmdsLedLevelSet \cup CmdsLedLevelAll
        \cup CmdsLedLevelMap \cup CmdsLedLevelRow \cup CmdsLedLevelCol

ShadowInit == PagesInit

\* Page.ready() on the page, in both runs
ShadowReady ==
    /\ phase = 0
    /\ PStep(Page_ready(mgr, grid, ShadowPage), <<"ready", ShadowPage>>)
    /\ mgrB' = Page_ready(mgrB, grid, ShadowPage).m
    /\ phase' = 1
    /\ UNCHANGED <<app_grid, dev, devB>>

\* second run: switch_page(page) before the writes
ShadowSwitchFirst ==
    /\ phase = 1
    /\ LET r == BasePageManager_switch_page(mgrB, grid, ShadowPage)
       IN  /\ mgrB' = r.m
           /\ devB' = Device_run(devB, r.sent)
           /\ op' = <<"switch_page_B", ShadowPage>>
           /\ sent' = r.sent
           /\ calls' = r.calls
           /\ err' = r.err
    /\ pre' = grid.state
    /\ phase' = 2
    /\ UNCHANGED <<grid, app_grid, mgr, dev>>

\* the same write on the page in both runs
ShadowWrite ==
    /\ phase \in 2 .. MaxWrites + 1
    /\ \E c \in ShadowCmds :
          /\ PWrite(ShadowPage, c)
          /\ dev' = Device_run(dev, PageCall(mgr, grid, ShadowPage, c).sent)
          /\ mgrB' = PageCall(mgrB, grid, ShadowPage, c).m
          /\ devB' = Device_run(devB, PageCall(mgrB, grid, ShadowPage, c).sent)
    /\ phase' = phase + 1
    /\ UNCHANGED app_grid

\* first run: switch_page(page) after the writes
ShadowSwitchLast ==
    /\ phase \in 2 .. MaxWrites + 2
    /\ PStep(BasePageManager_switch_page(mgr, grid, ShadowPage), <<"switch_page", ShadowPage>>)
    /\ dev' = Device_run(dev, BasePageManager_switch_page(mgr, grid, ShadowPage).sent)
    /\ phase' = ShadowDone
    /\ UNCHANGED <<app_grid, mgrB, devB>>

ShadowNext ==
    \/ ShadowReady
    \/ ShadowSwitchFirst
    \/ ShadowWrite
    \/ ShadowSwitchLast

SpecShadow == ShadowInit /\ [][ShadowNext]_vars

\* C10: once the page written while not current has been switched to, the
\* device shows the same LED levels and intensity as in the run where the
\* page was current while the same writes were made.
C10_ShadowConsistencyClaim ==
    phase = ShadowDone => dev = devB

---------------------------------------------------------------------------
(* key events on the page managers: a BasePageManager, a SeqPageManager and *)
(* a SumPageManager, each on a Ready link, receiving ready(), grid_key()    *)
(* and switch_page() calls                                                  *)

\* the switch button the Seq and Sum managers are constructed with
SwitchButton == <<1, 0>>

KeyManagers ==
    { BasePageManager_init,
      SwitchManager_init("seq", SwitchButton),
      SwitchManager_init("sum", SwitchButton) }

KindOf(m) == IF "kind" \in DOMAIN m THEN m.kind ELSE "base"

KeysInit ==
    /\ mgr \in KeyManagers
    /\ mgrB = BasePageManager_init
    /\ dev = Device_init(8, 8, MaxLevel)
    /\ devB = Device_init(8, 8, MaxLevel)
    /\ phase = 0
    /\ grid \in ManagerGrids
    /\ app_grid = Some(TheGrid)
    /\ op = <<"init">>
    /\ sent = <<>>
    /\ calls = <<>>
    /\ err = NoError
    /\ pre = READY

ManagerReady ==
    /\ PStep(IF KindOf(mgr) = "base" THEN BasePageManager_ready(mgr, grid)
             ELSE SwitchManager_ready(mgr, grid), <<"ready">>)
    /\ UNCHANGED <<app_grid, dev, mgrB, devB, phase>>

BaseGridKey ==
    \E x \in Coords, y \in Coords, s \in {0, 1} :
        /\ KindOf(mgr) = "base"
        /\ PStep(BasePageManager_grid_key(mgr, grid, x, y, s), <<"grid_key", x, y, s>>)
        /\ UNCHANGED <<app_grid, dev, mgrB, devB, phase>>

SeqGridKey ==
    \E x \in Coords, y \in Coords, s \in {0, 1} :
        /\ KindOf(mgr) = "seq"
        /\ PStep(SeqPageManager_grid_key(mgr, grid, x, y, s), <<"seq_key", x, y, s>>)
        /\ UNCHANGED <<app_grid, dev, mgrB, devB, phase>>

SumGridKey ==
    \E x \in Coords, y \in Coords, s \in {0, 1} :
        /\ KindOf(mgr) = "sum"
        /\ PStep(SumPageManager_grid_key(mgr, grid, x, y, s), <<"sum_key", x, y, s>>)
        /\ UNCHANGED <<app_grid, dev, mgrB, devB, phase>>

ManagerSwitchPage ==
    \E n \in {-1} \cup PageIds :
        /\ PStep(BasePageManager_switch_page(mgr, grid, n), <<"switch_page", n>>)
        /\ UNCHANGED <<app_grid, dev, mgrB, devB, phase>>

KeysNext ==
    \/ ManagerReady
    \/ BaseGridKey
    \/ SeqGridKey
    \/ SumGridKey
    \/ ManagerSwitchPage

SpecKeys == KeysInit /\ [][KeysNext]_vars

IsKeyCall(c) == c[1] = "page_grid_key"

\* the key events delivered to pages by the last step
KeyCalls(cs) == SelectSeq(cs, IsKeyCall)

Button(m, g) ==
    <<FromEdge(g.width[1], m.switch_button[1]), FromEdge(g.height[1], m.switch_button[2])>>

\* C12: on a SeqPageManager on which ready() has just been called, a press of the
\* switch button made while nothing else is pressed moves the current page
\* from index i to (i + 1) mod (page count), and a release of the switch
\* button leaves the current page as it is.
C12_SeqCycleClaim ==
    [][ (op'[1] = "seq_key" /\ op = <<"ready">> /\ mgr.current_page # None
            /\ <<op'[2], op'[3]>> = Button(mgr, grid)) =>
          IF op'[4] = 1
          THEN mgr.presses = {} =>
                   mgr'.current_page = Some((mgr.current_page[1] + 1) % NumPages)
          ELSE mgr'.current_page = mgr.current_page ]_vars

\* C13: on a SumPageManager on which ready() has just been called, the press of the
\* switch button made while nothing is pressed sets the current page to
\* none; while the current page is none every key event but the release of
\* the switch button leaves it none; and none of these events, the press and
\* the release of the switch button included, reaches a page's key handler.
C13_ChooserInterceptClaim ==
    [][ op'[1] = "sum_key" =>
          LET button == <<op'[2], op'[3]>> = Button(mgr, grid)
          IN  /\ (op = <<"ready">> /\ button /\ op'[4] = 1 /\ mgr.presses = {}
                     /\ mgr.current_page # None) =>
                     (mgr'.current_page = None /\ KeyCalls(calls') = <<>>)
              /\ mgr.current_page = None =>
                     /\ KeyCalls(calls') = <<>>
                     /\ ~(button /\ op'[4] = 0) => mgr'.current_page = None ]_vars

\* C14: on a SumPageManager on which ready() has just been called, the press of the
\* switch button that enters the chooser selects the page that was current;
\* in the chooser a tap at a column i < page count selects page i and a tap
\* at another column leaves the selection alone; the release of the switch
\* button makes the selected page current and invokes its render().
C14_ChooserCommitClaim ==
    [][ op'[1] = "sum_key" =>
          LET button == <<op'[2], op'[3]>> = Button(mgr, grid)
          IN  /\ (op = <<"ready">> /\ button /\ op'[4] = 1 /\ mgr.presses = {}
                     /\ mgr.current_page # None) =>
                     mgr'.selected_page = mgr.current_page
              /\ (mgr.current_page = None /\ ~button) =>
                     mgr'.selected_page = IF op'[2] < NumPages THEN Some(op'[2])
                                          ELSE mgr.selected_page
              /\ (mgr.current_page = None /\ button /\ op'[4] = 0
                     /\ mgr.selected_page # None) =>
                     /\ mgr'.current_page = mgr.selected_page
                     /\ \E i \in 1 .. Len(calls') :
                            calls'[i] = <<"page_render", mgr.selected_page[1]>> ]_vars

---------------------------------------------------------------------------
(* a Splitter on a Ready link: key events from the device, and LED         *)
(* operations issued through its Sections                                   *)

\* the Section lists a Splitter is constructed with: two halves of an 8x8
\* grid, two halves of a 16x8 grid, and two Sections that overlap
Layouts ==
    { << Section_init(<<4, 8>>, <<0, 0>>), Section_init(<<4, 8>>, <<4, 0>>) >>,
      << Section_init(<<8, 8>>, <<0, 0>>), Section_init(<<8, 8>>, <<8, 0>>) >>,
      << Section_init(<<4, 4>>, <<0, 0>>), Section_init(<<4, 4>>, <<2, 2>>) >> }

\* Splitter.__init__(sections)
Splitter_init(sections) == [sections |-> sections]

SplitCoords == 0 .. 7

SplitInit ==
    /\ mgr \in { Splitter_init(l) : l \in Layouts }
    /\ mgrB = BasePageManager_init
    /\ dev = Device_init(8, 8, MaxLevel)
    /\ devB = Device_init(8, 8, MaxLevel)
    /\ phase = 0
    /\ grid \in ManagerGrids
    /\ app_grid = Some(TheGrid)
    /\ op = <<"init">>
    /\ sent = <<>>
    /\ calls = <<>>
    /\ err = NoError
    /\ pre = READY

OnRows == { [i \in 1 .. n |-> 1] : n \in {3, 8, 16} }

\* the Section's method named by cmd[1], called with the arguments cmd[2], ...
SectionCall(sec, g, cmd) ==
    CASE cmd[1] = "led_set" -> Section_led_set(sec, g, cmd[2], cmd[3], cmd[4])
      [] cmd[1] = "led_all" -> Section_led_all(sec, g, cmd[2])
      [] cmd[1] = "led_map" -> Section_led_map(sec, g, cmd[2], cmd[3], cmd[4])
      [] cmd[1] = "led_row" -> Section_led_row(sec, g, cmd[2], cmd[3], cmd[4])
      [] cmd[1] = "led_col" -> Section_led_col(sec, g, cmd[2], cmd[3], cmd[4])
      [] cmd[1] = "led_intensity" -> Section_led_intensity(sec, g, cmd[2])
      [] cmd[1] = "led_level_set" -> Section_led_level_set(sec, g, cmd[2], cmd[3], cmd[4])
      [] cmd[1] = "led_level_all" -> Section_led_level_all(sec, g, cmd[2])
      [] cmd[1] = "led_level_map" -> Section_led_level_map(sec, g, cmd[2], cmd[3], cmd[4])
      [] cmd[1] = "led_level_row" -> Section_led_level_row(sec, g, cmd[2], cmd[3], cmd[4])
      [] cmd[1] = "led_level_col" -> Section_led_level_col(sec, g, cmd[2], cmd[3], cmd[4])

\* one call on the Splitter or on Section i of it: nothing of them changes
SStep(r, o) ==
    /\ grid' = r.g
    /\ sent' = r.sent
    /\ calls' = r.calls
    /\ err' = r.err
    /\ op' = o
    /\ pre' = grid.state

SWrite(i, cmd) == SStep(SectionCall(mgr.sections[i], grid, cmd), <<"section", i, cmd>>)

SplitterGridKey ==
    \E x \in SplitCoords, y \in SplitCoords, s \in {0, 1} :
        /\ SStep(Splitter_grid_key(mgr.sections, grid, x, y, s), <<"splitter_key", x, y, s>>)
        /\ UNCHANGED <<app_grid, mgr, dev, mgrB, devB, phase>>

SectionLedSet ==
    \E i \in 1 .. Len(mgr.sections), c \in { <<"led_set", x, y, 1>> : x \in {0, 3, 4}, y \in {0, 8} } :
        /\ SWrite(i, c)
        /\ UNCHANGED <<app_grid, mgr, dev, mgrB, devB, phase>>

SectionLedAll ==
    \E i \in 1 .. Len(mgr.sections), c \in { <<"led_all", s>> : s \in {0, 1} } :
        /\ SWrite(i, c)
        /\ UNCHANGED <<app_grid, mgr, dev, mgrB, devB, phase>>

SectionLedMap ==
    \E i \in 1 .. Len(mgr.sections), c \in { <<"led_map", x, 0, BinMap>> : x \in {0, 8} } :
        /\ SWrite(i, c)
        /\ UNCHANGED <<app_grid, mgr, dev, mgrB, devB, phase>>

SectionLedRow ==
    \E i \in 1 .. Len(mgr.sections), c \in { <<"led_row", x, y, d>> : x \in {0, 4}, y \in {0, 8}, d \in OnRows } :
        /\ SWrite(i, c)
        /\ UNCHANGED <<app_grid, mgr, dev, mgrB, devB, phase>>

SectionLedCol ==
    \E i \in 1 .. Len(mgr.sections), c \in { <<"led_col", x, y, d>> : x \in {0, 8}, y \in {0, 4}, d \in OnRows } :
        /\ SWrite(i, c)
        /\ UNCHANGED <<app_grid, mgr, dev, mgrB, devB, phase>>

SectionLedIntensity ==
    \E i \in 1 .. Len(mgr.sections), c \in { <<"led_intensity", i>> : i \in {0, 7} } :
        /\ SWrite(i, c)
        /\ UNCHANGED <<app_grid, mgr, dev, mgrB, devB, phase>>

SectionLedLevelSet ==
    \E i \in 1 .. Len(mgr.sections), c \in { <<"led_level_set", x, y, l>> : x \in {0, 3, 4}, y \in {0, 8}, l \in {7, 8} } :
        /\ SWrite(i, c)
        /\ UNCHANGED <<app_grid, mgr, dev, mgrB, devB, phase>>

SectionLedLevelAll ==
    \E i \in 1 .. Len(mgr.sections), c \in { <<"led_level_all", l>> : l \in {0, 1, 8} } :
        /\ SWrite(i, c)
        /\ UNCHANGED <<app_grid, mgr, dev, mgrB, devB, phase>>

SectionLedLevelMap ==
    \E i \in 1 .. Len(mgr.sections), c \in { <<"led_level_map", x, 0, LevelMap(5, 1)>> : x \in {0, 8} } :
        /\ SWrite(i, c)
        /\ UNCHANGED <<app_grid, mgr, dev, mgrB, devB, phase>>

SectionLedLevelRow ==
    \E i \in 1 .. Len(mgr.sections), c \in { <<"led_level_row", x, y, LevelRow(5, n)>> : x \in {0, 4}, y \in {0, 8}, n \in {3, 8, 16} } :
        /\ SWrite(i, c)
        /\ UNCHANGED <<app_grid, mgr, dev, mgrB, devB, phase>>

SectionLedLevelCol ==
    \E i \in 1 .. Len(mgr.sections), c \in { <<"led_level_col", x, y, LevelRow(5, n)>> : x \in {0, 8}, y \in {0, 4}, n \in {3, 8, 16} } :
        /\ SWrite(i, c)
        /\ UNCHANGED <<app_grid, mgr, dev, mgrB, devB, phase>>

SplitNext ==
    \/ SplitterGridKey
    \/ SectionLedSet
    \/ SectionLedAll
    \/ SectionLedMap
    \/ SectionLedRow
    \/ SectionLedCol
    \/ SectionLedIntensity
    \/ SectionLedLevelSet
    \/ SectionLedLevelAll
    \/ SectionLedLevelMap
    \/ SectionLedLevelRow
    \/ SectionLedLevelCol

SpecSplit == SplitInit /\ [][SplitNext]_vars

\* the Sections of the list whose rectangle contains (x, y)
Containing(sections, x, y) ==
    { i \in 1 .. Len(sections) :
        /\ x - sections[i].part_offset_x \in 0 .. sections[i].part_width - 1
        /\ y - sections[i].part_offset_y \in 0 .. sections[i].part_height - 1 }

\* C15: a key event at physical (x, y) is delivered to the first Section of
\* the list whose rectangle contains (x, y), as (x - offset_x, y - offset_y),
\* and to no other Section; with no such Section nothing is delivered.
C15_SplitterRoutingClaim ==
    op[1] = "splitter_key" =>
        LET cs == Containing(mgr.sections, op[2], op[3])
            first == CHOOSE i \in cs : \A j \in cs : i <= j
        IN  calls = IF cs = {} THEN <<>>
                    ELSE << <<"section_grid_key", first - 1,
                              op[2] - mgr.sections[first].part_offset_x,
                              op[3] - mgr.sections[first].part_offset_y, op[4]>> >>

\* the LED cells a command to the device addresses (serialosc: a map is an
\* 8x8 block, a row or column byte is 8 cells, a level row or column entry
\* is one cell)
Addressed(msg) ==
    LET path == msg[1]
        a == Tail(msg)
        n == Len(a) - 2
    IN  CASE path \in {Path("/grid/led/set"), Path("/grid/led/level/set")} -> { <<a[1], a[2]>> }
          [] path \in {Path("/grid/led/map"), Path("/grid/led/level/map")} ->
                { <<a[1] + i, a[2] + j>> : i \in 0 .. 7, j \in 0 .. 7 }
          [] path = Path("/grid/led/row") -> { <<a[1] + i, a[2]>> : i \in 0 .. 8 * n - 1 }
          [] path = Path("/grid/led/col") -> { <<a[1], a[2] + j>> : j \in 0 .. 8 * n - 1 }
          [] path = Path("/grid/led/level/row") -> { <<a[1] + i, a[2]>> : i \in 0 .. n - 1 }
          [] path = Path("/grid/led/level/col") -> { <<a[1], a[2] + j>> : j \in 0 .. n - 1 }
          [] OTHER -> {}

\* the physical cells of a Section's rectangle
Rect(sec) ==
    { <<sec.part_offset_x + i, sec.part_offset_y + j>> :
        i \in 0 .. sec.part_width - 1, j \in 0 .. sec.part_height - 1 }

\* C16: every LED cell addressed by the commands a Section operation sends
\* to the device lies inside the Section's rectangle, and a led_set or
\* led_level_set inside the Section addresses the cell shifted by the
\* Section's offset.
C16_SectionConfinementClaim ==
    op[1] = "section" =>
        LET sec == mgr.sections[op[2]]
            cmd == op[3]
        IN  /\ \A i \in 1 .. Len(sent) : Addressed(sent[i]) \subseteq Rect(sec)
            /\ (cmd[1] \in {"led_set", "led_level_set"}
                    /\ cmd[2] < sec.part_width /\ cmd[3] < sec.part_height) =>
                   /\ Len(sent) = 1
                   /\ Addressed(sent[1]) =
                          { <<cmd[2] + sec.part_offset_x, cmd[3] + sec.part_offset_y>> }

---------------------------------------------------------------------------
(* a GridBuffer written directly: bulk writes at offsets inside, at and     *)
(* beyond the edge, the combine operators against a second buffer, and      *)
(* render on a Ready link                                                   *)

\* width and height of the buffers: multiples of 8
BufSizes == { <<8, 8>>, <<16, 8>> }

\* mgr.a is the buffer written and rendered, mgr.b the other operand of the
\* combine operators, mgr.result what the last operator returned
BufInit ==
    /\ mgr \in { [a |-> GridBuffer_init(sz[1], sz[2]), b |-> GridBuffer_init(8, 8),
                  result |-> None] : sz \in BufSizes }
    /\ mgrB = BasePageManager_init
    /\ dev = Device_init(8, 8, MaxLevel)
    /\ devB = Device_init(8, 8, MaxLevel)
    /\ phase = 0
    /\ grid \in ManagerGrids
    /\ app_grid = Some(TheGrid)
    /\ op = <<"init">>
    /\ sent = <<>>
    /\ calls = <<>>
    /\ err = NoError
    /\ pre = READY

\* one write on mgr.a; the number of writes is bounded by MaxWrites
BWrite(cmd) ==
    /\ phase < MaxWrites
    /\ mgr' = [mgr EXCEPT !.a = BufferApply(mgr.a, cmd).b]
    /\ err' = BufferApply(mgr.a, cmd).err
    /\ op' = <<"buffer", cmd>>
    /\ sent' = <<>>
    /\ calls' = <<>>
    /\ pre' = grid.state
    /\ phase' = phase + 1

BufLedSet ==
    \E c \in { <<"led_set", x, 0, 1>> : x \in {1, 8} } :
        /\ BWrite(c)
        /\ UNCHANGED <<grid, app_grid, dev, mgrB, devB>>

BufLedAll ==
    \E c \in { <<"led_all", s>> : s \in {0, 1} } :
        /\ BWrite(c)
        /\ UNCHANGED <<grid, app_grid, dev, mgrB, devB>>

BufLedMap ==
    \E c \in { <<"led_map", x, 0, BinMap>> : x \in {4, 9} } :
        /\ BWrite(c)
        /\ UNCHANGED <<grid, app_grid, dev, mgrB, devB>>

BufLedRow ==
    \E c \in { <<"led_row", x, 0, [i \in 1 .. 16 |-> 1]>> : x \in {4, 9} } :
        /\ BWrite(c)
        /\ UNCHANGED <<grid, app_grid, dev, mgrB, devB>>

BufLedCol ==
    \E c \in { <<"led_col", 1, y, [i \in 1 .. 16 |-> 1]>> : y \in {4, 9} } :
        /\ BWrite(c)
        /\ UNCHANGED <<grid, app_grid, dev, mgrB, devB>>

BufLedLevelSet ==
    \E c \in { <<"led_level_set", x, 0, 8>> : x \in {1, 8} } :
        /\ BWrite(c)
        /\ UNCHANGED <<grid, app_grid, dev, mgrB, devB>>

BufLedLevelAll ==
    \E c \in { <<"led_level_all", 5>> } :
        /\ BWrite(c)
        /\ UNCHANGED <<grid, app_grid, dev, mgrB, devB>>

BufLedLevelMap ==
    \E c \in { <<"led_level_map", x, 0, LevelMap(5, 1)>> : x \in {4, 9} } :
        /\ BWrite(c)
        /\ UNCHANGED <<grid, app_grid, dev, mgrB, devB>>

BufLedLevelRow ==
    \E c \in { <<"led_level_row", x, 0, LevelRow(5, n)>> : x \in {0, 4, 8, 9}, n \in {3, 8} } :
        /\ BWrite(c)
        /\ UNCHANGED <<grid, app_grid, dev, mgrB, devB>>

BufLedLevelCol ==
    \E c \in { <<"led_level_col", 1, y, LevelRow(5, n)>> : y \in {4, 8, 9}, n \in {3, 8} } :
        /\ BWrite(c)
        /\ UNCHANGED <<grid, app_grid, dev, mgrB, devB>>

\* r = a <operator> b
BCombine(r, o) ==
    /\ mgr' = [mgr EXCEPT !.result = r.result]
    /\ err' = r.err
    /\ op' = <<o>>
    /\ sent' = <<>>
    /\ calls' = <<>>
    /\ pre' = grid.state

BufAnd ==
    /\ BCombine(GridBuffer_and(mgr.a, mgr.b), "and")
    /\ UNCHANGED <<grid, app_grid, dev, mgrB, devB, phase>>

BufXor ==
    /\ BCombine(GridBuffer_xor(mgr.a, mgr.b), "xor")
    /\ UNCHANGED <<grid, app_grid, dev, mgrB, devB, phase>>

BufOr ==
    /\ BCombine(GridBuffer_or(mgr.a, mgr.b), "or")
    /\ UNCHANGED <<grid, app_grid, dev, mgrB, devB, phase>>

\* mgr.a.render(grid)
BufRender ==
    /\ sent' = GridBuffer_render(mgr.a, grid)
    /\ err' = NoError
    /\ op' = <<"render">>
    /\ calls' = <<>>
    /\ pre' = grid.state
    /\ UNCHANGED <<grid, app_grid, mgr, dev, mgrB, devB, phase>>

BufNext ==
    \/ BufLedSet
    \/ BufLedAll
    \/ BufLedMap
    \/ BufLedRow
    \/ BufLedCol
    \/ BufLedLevelSet
    \/ BufLedLevelAll
    \/ BufLedLevelMap
    \/ BufLedLevelRow
    \/ BufLedLevelCol
    \/ BufAnd
    \/ BufXor
    \/ BufOr
    \/ BufRender

SpecBuf == BufInit /\ [][BufNext]_vars

BulkWrites == {"led_map", "led_row", "led_col", "led_level_map", "led_level_row", "led_level_col"}

\* the level of cell (x, y) after a bulk write that clips: the entry of the
\* data that falls on the cell (binary data stored as 0 or 15), else old
ClippedCell(cmd, x, y, old) ==
    LET k == IF cmd[1] \in {"led_map", "led_row", "led_col"} THEN 15 ELSE 1
        d == cmd[4]
    IN  CASE cmd[1] \in {"led_row", "led_level_row"} ->
                IF y = cmd[3] /\ x - cmd[2] \in 0 .. Len(d) - 1
                THEN k * d[x - cmd[2] + 1] ELSE old
          [] cmd[1] \in {"led_col", "led_level_col"} ->
                IF x = cmd[2] /\ y - cmd[3] \in 0 .. Len(d) - 1
                THEN k * d[y - cmd[3] + 1] ELSE old
          [] cmd[1] \in {"led_map", "led_level_map"} ->
                IF y - cmd[3] \in 0 .. Len(d) - 1
                THEN IF x - cmd[2] \in 0 .. Len(d[y - cmd[3] + 1]) - 1
                     THEN k * d[y - cmd[3] + 1][x - cmd[2] + 1] ELSE old
                ELSE old

\* C17: a row, column or rectangle write on a surface, binary or level, at
\* any offset and with data of any length, raises nothing, writes exactly
\* the entries of the data that fall inside the surface and leaves every
\* other cell as it was.
C17_BulkWriteClipClaim ==
    [][ (op'[1] = "buffer" /\ op'[2][1] \in BulkWrites) =>
          /\ err' = NoError
          /\ mgr'.a.levels =
                [r \in 1 .. mgr.a.height |->
                    [c \in 1 .. mgr.a.width |->
                        ClippedCell(op'[2], c - 1, r - 1, mgr.a.levels[r][c])]] ]_vars

\* C18: a combine operator (and, or, xor) on two surfaces leaves both
\* operands as they were; with different widths or heights it fails with an
\* error, with equal dimensions it raises nothing and returns a surface of
\* the same dimensions.
C18_CombineClaim ==
    [][ op'[1] \in {"and", "or", "xor"} =>
          /\ mgr'.a = mgr.a
          /\ mgr'.b = mgr.b
          /\ IF mgr.a.width = mgr.b.width /\ mgr.a.height = mgr.b.height
             THEN /\ err' = NoError
                  /\ mgr'.result # None
                  /\ mgr'.result[1].width = mgr.a.width
                  /\ mgr'.result[1].height = mgr.a.height
             ELSE err' # NoError ]_vars

\* the commands of a render that address the tile at (x_offset, y_offset)
TileCmds(x_offset, y_offset) ==
    { k \in 1 .. Len(sent) : sent[k][2] = x_offset /\ sent[k][3] = y_offset }

\* C19: render on a width x height surface sends (width/8) * (height/8)
\* commands, one for each tile offset (8i, 8j): on a varibright link the
\* level map command with the tile's 64 stored levels row by row, otherwise
\* the binary map command with one byte for each row of the tile, bit c of
\* the byte being 0 for a stored level 0..7 and 1 for 8..15 in column c.
C19_RenderTiles ==
    op = <<"render">> =>
        LET b == mgr.a
            nx == b.width \div 8
            ny == b.height \div 8
        IN  /\ Len(sent) = nx * ny
            /\ \A i \in 0 .. nx - 1, j \in 0 .. ny - 1 :
                  /\ Cardinality(TileCmds(8 * i, 8 * j)) = 1
                  /\ \A k \in TileCmds(8 * i, 8 * j) :
                        IF grid.varibright
                        THEN /\ sent[k][1] = Path("/grid/led/level/map")
                             /\ Len(sent[k]) = 67
                             /\ \A r \in 0 .. 7, c \in 0 .. 7 :
                                   sent[k][4 + 8 * r + c] = b.levels[8 * j + r + 1][8 * i + c + 1]
                        ELSE /\ sent[k][1] = Path("/grid/led/map")
                             /\ Len(sent[k]) = 11
                             /\ \A r \in 0 .. 7 :
                                   sent[k][4 + r] =
                                       ByteOf([c \in 1 .. 8 |->
                                                  Binary(b.levels[8 * j + r + 1][8 * i + c])])

C19_Witness ==
    /\ op = <<"render">>
    /\ ~grid.varibright
    /\ mgr.a.width = 16
    /\ Len(sent) = 2
    /\ sent[1][4] = 240
    /\ sent[2][4] # sent[1][4]

---------------------------------------------------------------------------
(* discovery: a SerialOsc client from its construction on.  mgr.osc is the  *)
(* client; mgr.lists and mgr.notifies count the listing and subscription    *)
(* requests it has sent, mgr.devices the /serialosc/device messages and     *)
(* mgr.events the /serialosc/add and /serialosc/remove messages received.   *)

\* the number of inbound discovery messages in a run
MaxEvents == 3

\* id, type and port of the devices serialosc reports
OscDevices == { <<"m64", "monome 64", 1>>, <<"m128", "monome 128", 2>> }

OscInit ==
    /\ mgr \in { [osc |-> SerialOsc_init(a), lists |-> 0, notifies |-> 0,
                  devices |-> 0, events |-> 0, grids |-> <<>>] : a \in {None, Some(TheApp)} }
    /\ mgrB = BasePageManager_init
    /\ dev = Device_init(8, 8, MaxLevel)
    /\ devB = Device_init(8, 8, MaxLevel)
    /\ phase = 0
    /\ grid = Grid_init
    /\ app_grid = None
    /\ op = <<"init">>
    /\ sent = <<>>
    /\ calls = <<>>
    /\ err = NoError
    /\ pre = DISCONNECTED

\* how many of the messages go to the path
CountPath(msgs, path) == Cardinality({ i \in 1 .. Len(msgs) : msgs[i][1] = path })

\* one step of the client: r is the result of the method, o the call
OStep(r, o) ==
    /\ mgr' = [mgr EXCEPT !.osc = r.o,
                          !.lists = @ + CountPath(r.sent, "/serialosc/list"),
                          !.notifies = @ + CountPath(r.sent, "/serialosc/notify"),
                          !.devices = @ + (IF o[1] = "/serialosc/device" THEN 1 ELSE 0),
                          !.events = @ + (IF o[1] \in {"/serialosc/add", "/serialosc/remove"}
                                          THEN 1 ELSE 0)]
    /\ sent' = r.sent
    /\ op' = o
    /\ calls' = <<>>
    /\ err' = NoError
    /\ pre' = grid.state

OscConnectionMade ==
    /\ mgr.osc.host = None
    /\ OStep(SerialOsc_connection_made(mgr.osc), <<"connection_made">>)
    /\ UNCHANGED <<grid, app_grid, dev, mgrB, devB, phase>>

OscDevice ==
    \E d \in OscDevices :
        /\ mgr.osc.host # None
        /\ mgr.devices + mgr.events < MaxEvents
        /\ OStep(SerialOsc_on_serialosc_device(mgr.osc, d[1], d[2], d[3]),
                 <<"/serialosc/device">> \o d)
        /\ UNCHANGED <<grid, app_grid, dev, mgrB, devB, phase>>

OscAdd ==
    \E d \in OscDevices :
        /\ mgr.osc.host # None
        /\ mgr.devices + mgr.events < MaxEvents
        /\ OStep(SerialOsc_on_serialosc_add(mgr.osc, d[1], d[2], d[3]),
                 <<"/serialosc/add">> \o d)
        /\ UNCHANGED <<grid, app_grid, dev, mgrB, devB, phase>>

OscRemove ==
    \E d \in OscDevices :
        /\ mgr.osc.host # None
        /\ mgr.devices + mgr.events < MaxEvents
        /\ OStep(SerialOsc_on_serialosc_remove(mgr.osc, d[1], d[2], d[3]),
                 <<"/serialosc/remove">> \o d)
        /\ UNCHANGED <<grid, app_grid, dev, mgrB, devB, phase>>

\* a scheduled autoconnect coroutine runs: the new Grid sends its handshake.
\* mgr.grids holds the Grid endpoints created so far, and the App's grid
\* attribute is the position in it of the Grid the App references
OscAutoconnect ==
    /\ mgr.osc.tasks # <<>>
    /\ mgr' = [mgr EXCEPT !.osc = SerialOsc_autoconnect(mgr.osc).o,
                          !.grids = Append(@, SerialOsc_autoconnect(mgr.osc).r.g)]
    /\ app_grid' = Some(Len(mgr.grids) + 1)
    /\ sent' = SerialOsc_autoconnect(mgr.osc).r.sent
    /\ calls' = SerialOsc_autoconnect(mgr.osc).r.calls
    /\ err' = SerialOsc_autoconnect(mgr.osc).r.err
    /\ op' = <<"autoconnect", Head(mgr.osc.tasks)>>
    /\ pre' = grid.state
    /\ UNCHANGED <<grid, dev, mgrB, devB, phase>>

\* the callbacks a Grid makes on its listener, run on the App: on_grid_ready
\* is pass and on_grid_disconnect is detach(), which acts on the Grid the
\* App references
App_callbacks(gs, ag, cs) ==
    IF \E i \in 1 .. Len(cs) : cs[i] = <<"on_grid_disconnect">>
    THEN [grids |-> IF ag = None THEN gs
                    ELSE [gs EXCEPT ![ag[1]] = App_on_grid_disconnect(@, ag).g],
          app_grid |-> None,
          err |-> IF ag = None THEN "AttributeError" ELSE NoError]
    ELSE [grids |-> gs, app_grid |-> ag, err |-> NoError]

\* the device of the i-th Grid goes away: its /sys/disconnect arrives
OscGridDisconnect ==
    \E i \in 1 .. Len(mgr.grids) :
        LET r == Grid_handlers(mgr.grids[i], <<"/sys/disconnect">>)
            a == App_callbacks([mgr.grids EXCEPT ![i] = r.g], app_grid,
                               IF r.g.event_handler = None THEN <<>> ELSE r.calls)
        IN  /\ mgr' = [mgr EXCEPT !.grids = a.grids]
            /\ app_grid' = a.app_grid
            /\ sent' = r.sent
            /\ calls' = r.calls
            /\ err' = IF r.err # NoError THEN r.err ELSE a.err
            /\ op' = <<"recv", i, "/sys/disconnect">>
            /\ pre' = grid.state
            /\ UNCHANGED <<grid, dev, mgrB, devB, phase>>

\* the application calls App.detach()
OscDetach ==
    /\ mgr' = [mgr EXCEPT !.grids = IF app_grid = None THEN @
                                    ELSE [@ EXCEPT ![app_grid[1]] = App_detach(@, app_grid).g]]
    /\ app_grid' = None
    /\ sent' = <<>>
    /\ calls' = <<>>
    /\ err' = IF app_grid = None THEN "AttributeError" ELSE NoError
    /\ op' = <<"detach">>
    /\ pre' = grid.state
    /\ UNCHANGED <<grid, dev, mgrB, devB, phase>>

OscNext ==
    \/ OscConnectionMade
    \/ OscDevice
    \/ OscAdd
    \/ OscRemove
    \/ OscAutoconnect
    \/ OscGridDisconnect
    \/ OscDetach

SpecOsc == OscInit /\ [][OscNext]_vars

\* C20: the client sends one listing request and one subscription request
\* when its endpoint is made; each add or remove notification makes it send
\* exactly one subscription request and a device message from the listing
\* makes it send nothing, so that after k add or remove notifications it
\* has sent one listing request and 1 + k subscription requests.
C20_RenewalPerEvent ==
    [][ /\ op' = <<"connection_made">> =>
              sent' = << <<"/serialosc/list", HOST, PORT>>, <<"/serialosc/notify", HOST, PORT>> >>
        /\ op'[1] \in {"/serialosc/add", "/serialosc/remove"} =>
              sent' = << <<"/serialosc/notify", HOST, PORT>> >>
        /\ op'[1] = "/serialosc/device" => sent' = <<>>
        /\ mgr'.osc.host # None =>
              (mgr'.lists = 1 /\ mgr'.notifies = 1 + mgr'.events) ]_vars

C20_Witness ==
    /\ mgr.events = 2
    /\ mgr.devices = 1
    /\ mgr.notifies = 3
    /\ op[1] = "/serialosc/device"

---------------------------------------------------------------------------
(* the ready notification of a connection *)

IsReadyCall(c) == c = <<"on_grid_ready">>

\* C21: once a link that was Connecting has become Ready and has notified
\* its listener "ready", the next inbound /sys/id, /sys/size or /sys/rotation
\* message does not notify "ready" again.
C21_ReadyOnceClaim ==
    [][ ( /\ pre = CONNECTING
          /\ grid.state = READY
          /\ SelectSeq(calls, IsReadyCall) # <<>>
          /\ (IsRecv(op', "/sys/id") \/ IsRecv(op', "/sys/size") \/ IsRecv(op', "/sys/rotation")) ) =>
          SelectSeq(calls', IsReadyCall) = <<>> ]_vars

---------------------------------------------------------------------------
(* the key stream each page sees across a page switch *)

\* the key events among cs that page n receives for coordinate <<x, y>>
\* with state s
KeyCallsTo(cs, n, x, y, s) ==
    { i \in 1 .. Len(cs) : cs[i] = <<"page_grid_key", n, x, y, s>> }

\* C22: when switch_page(n) has just released a held coordinate on the
\* outgoing page and made page n current, the device's release of that
\* coordinate, which follows its press in a well-formed key stream, is not
\* delivered to page n: page n has received no press of it.
C22_BalancedKeysClaim ==
    [][ ( /\ op[1] = "switch_page"
          /\ op[2] \in PageIds
          /\ mgr.current_page = Some(op[2])
          /\ op'[1] \in {"grid_key", "seq_key", "sum_key"}
          /\ op'[4] = 0
          /\ \E p \in PageIds \ {op[2]} :
                 KeyCallsTo(calls, p, op'[2], op'[3], 0) # {} ) =>
          KeyCallsTo(calls', op[2], op'[2], op'[3], 0) = {} ]_vars

---------------------------------------------------------------------------
(* the Grids an auto-connecting SerialOsc has attached its App to *)

\* the Grids whose event_handler is the App
ListenerOf(gs) == { i \in 1 .. Len(gs) : gs[i].event_handler = Some(TheApp) }

\* C23: the App is the event_handler of at most one Grid, and that Grid is
\* the one the App's grid attribute references.
C23_SingleLinkClaim ==
    /\ Cardinality(ListenerOf(mgr.grids)) <= 1
    /\ \A i \in ListenerOf(mgr.grids) : app_grid = Some(i)

====
